---- MODULE Spec2Model ----
(***************************************************************************)
(* Order / inventory / payment pipeline of the GRANJACBC backend.          *)
(*                                                                         *)
(* Every HTTP request is one process.  A request runs its SQL statements   *)
(* one at a time inside one transaction (utils/helpers.py db_session);     *)
(* the statements of concurrent requests interleave.  The committed        *)
(* database is `db`; the writes of an open transaction are kept in the     *)
(* request's log `tx` and reach `db` only at COMMIT.  SELECT ... FOR       *)
(* UPDATE and UPDATE take row locks that are held until the transaction    *)
(* ends (InnoDB).  AUTO_INCREMENT counters are not transactional.          *)
(*                                                                         *)
(* Money is counted in whole units (integers): float rounding of           *)
(* total_pedido is outside the model.                                      *)
(***************************************************************************)
EXTENDS Integers, Sequences, FiniteSets, TLC

\* ---------------------------------------------------------------- bounds
NumProductos == 2
MaxCantidad == 2
MaxLineas == 2
MaxReqs == 3
MaxPedidoReqs == 2
MaxPagoReqs == 2
MaxVentaReqs == 2
MaxEnVuelo == 2
MaxErroresBD == 1
MaxPrecioReqs == 2
MaxEliminarReqs == 2

\* ------------------------------------------------------------- constants
Productos == 1..NumProductos
\* users 1 and 2 own a customer profile (clientes row), user 3 has none
Usuarios == {1, 2, 3}
SinCliente == 0
ClienteDe(u) == IF u \in {1, 2} THEN u ELSE SinCliente
\* clientes.id_usuario of a customer profile
UsuarioDe(c) == CHOOSE u \in Usuarios : ClienteDe(u) = c

\* initial rows of productos / inventarios
PrecioInicial == [p \in Productos |-> p + 1]
StockInicial == [p \in Productos |-> IF p = 1 THEN MaxCantidad ELSE 1]

\* request slots, numbered in the order the requests arrive
Reqs == 1..MaxReqs

VARIABLES db, lastid, locks, req

vars == <<db, lastid, locks, req>>

\* ------------------------------------------------------------ line items
LineasValidas == [id_producto : Productos, cantidad : 1..MaxCantidad]
\* one line per way of failing the per-item checks of crear_pedido
LineasInvalidas ==
  { [id_producto |-> 0, cantidad |-> 1],
    [id_producto |-> 1, cantidad |-> 0],
    [id_producto |-> NumProductos + 1, cantidad |-> 1] }
Lineas == LineasValidas \cup LineasInvalidas

RECURSIVE SeqsHasta(_, _)
SeqsHasta(S, n) ==
  IF n = 0 THEN {<<>>}
  ELSE LET prev == SeqsHasta(S, n - 1)
       IN prev \cup {Append(s, x) : s \in {t \in prev : Len(t) = n - 1}, x \in S}

\* The lists a client sends.  The first loop of crear_pedido returns at the
\* first line that fails a check, so nothing after such a line is ever read:
\* a list is valid lines followed by one line of any kind.
ListasProductos ==
  {<<>>} \cup
  {Append(s, x) : s \in SeqsHasta(LineasValidas, MaxLineas - 1), x \in Lineas}

\* The (user, list) pairs of the order requests.  A user without a customer
\* profile is answered before any line is read: one list stands for all.
EntradasPedido ==
  {e \in Usuarios \X ListasProductos :
     \/ e[1] = 1
     \/ ClienteDe(e[1]) = SinCliente /\ e[2] = <<[id_producto |-> 1, cantidad |-> 1]>>}

\* --------------------------------------------------------- request state
\* what fetchone() gives when the cart holds no row for (customer, product)
SinItem == [id_item_carrito |-> 0, cantidad |-> 0]

ReqVacia ==
  [kind |-> "none", pc |-> "idle", usuario |-> 0, productos |-> <<>>,
   id_cliente |-> 0, idx |-> 1, total_pedido |-> 0,
   detalles_para_insertar |-> <<>>, cantidad_disponible |-> 0,
   id_pedido |-> 0, monto_cliente |-> 0, monto_pago |-> 0, id_pago |-> 0,
   estado_pedido |-> "none", estado_pago |-> "none",
   id_producto |-> 0, cantidad |-> 0, item_existente |-> SinItem, rowcount |-> 0,
   id_venta |-> 0, detalles_pedido |-> <<>>, resultado |-> "none",
   precio |-> 0, cantidad_ajuste |-> 0, stock |-> 0, nuevo_stock |-> 0,
   tx |-> <<>>, resp |-> 0, msg |-> "none"]

\* the tables before the first request: a catalogue with stock, nothing else
BDInicial ==
  [productos |-> [p \in Productos |-> [precio_venta |-> PrecioInicial[p],
                                        stock |-> StockInicial[p]]],
   inventarios |-> [p \in Productos |-> [cantidad_disponible |-> StockInicial[p]]],
   pedidos |-> <<>>,
   detalle_pedidos |-> {},
   pagos |-> {},
   ventas |-> {},
   detalles_venta |-> {},
   estados_venta |-> {[id_estado_venta |-> 1, nombre_estado |-> "Completado"]},
   carrito |-> {}]

\* the AUTO_INCREMENT counters of the empty tables
LastidInicial ==
  [pedidos |-> 0, detalle_pedidos |-> 0, pagos |-> 0,
   ventas |-> 0, detalles_venta |-> 0, carrito |-> 0]

Init ==
  /\ db = BDInicial
  /\ lastid = LastidInicial
  /\ locks = {}
  /\ req = [r \in Reqs |-> ReqVacia]

\* ------------------------------------------------------------ the store
\* (an update that takes one unit whatever the quantity)
DecrementoUnidad(cantidad_disponible, cantidad) == cantidad_disponible - 1

\* UPDATE inventarios SET cantidad_disponible = cantidad_disponible - %s
Decremento(cantidad_disponible, cantidad) == cantidad_disponible - cantidad

\* (a price change that also rewrites the lines of the orders already placed)
AplicarPrecioEnLineas(d, o) ==
  [d EXCEPT !.productos[o.id].precio_venta = o.fila.precio,
            !.detalle_pedidos =
               {IF l.id_producto = o.id
                THEN [l EXCEPT !.precio_unitario = o.fila.precio] ELSE l : l \in @}]

\* UPDATE productos SET precio = %s WHERE id_producto = %s
AplicarPrecio(d, o) ==
  [d EXCEPT !.productos[o.id].precio_venta = o.fila.precio]

\* ON DELETE CASCADE from pedidos to detalle_pedidos: the detail rows of a
\* deleted order go with it.
CascadaDetalles(d, id) ==
  [d EXCEPT !.detalle_pedidos = {l \in @ : l.id_pedido # id}]

\* (a delete that puts the units of the order back on the shelf)
AplicarBorradoConReposicion(d, o) ==
  LET ls == {l \in d.detalle_pedidos : l.id_pedido = o.id}
      devuelto(p) == IF \E l \in ls : l.id_producto = p
                     THEN (CHOOSE l \in ls : l.id_producto = p).cantidad ELSE 0
  IN CascadaDetalles(
       [d EXCEPT !.pedidos = [i \in DOMAIN d.pedidos \ {o.id} |-> d.pedidos[i]],
                 !.inventarios =
                    [p \in DOMAIN d.inventarios |->
                       [cantidad_disponible |->
                          d.inventarios[p].cantidad_disponible + devuelto(p)]]],
       o.id)

\* DELETE FROM pedidos WHERE id_pedido = %s
AplicarBorrado(d, o) ==
  CascadaDetalles(
    [d EXCEPT !.pedidos = [i \in DOMAIN d.pedidos \ {o.id} |-> d.pedidos[i]]],
    o.id)

\* (a refund that also cancels the order it paid and returns its units)
AplicarEstadoPagoConReembolso(d, o) ==
  LET pagados == {g.id_pedido : g \in {h \in d.pagos : h.id_pago = o.id}}
      ls == {l \in d.detalle_pedidos : l.id_pedido \in pagados}
      devuelto(p) == IF \E l \in ls : l.id_producto = p
                     THEN (CHOOSE l \in ls : l.id_producto = p).cantidad ELSE 0
  IN [d EXCEPT
        !.pagos =
           {IF g.id_pago = o.id THEN [g EXCEPT !.estado_pago = o.fila.estado_pago] ELSE g
              : g \in @},
        !.pedidos =
           [i \in DOMAIN d.pedidos |->
              IF i \in pagados /\ o.fila.estado_pago = "Reembolsado"
              THEN [d.pedidos[i] EXCEPT !.estado_pedido = "Cancelado"]
              ELSE d.pedidos[i]],
        !.inventarios =
           [p \in DOMAIN d.inventarios |->
              [cantidad_disponible |->
                 d.inventarios[p].cantidad_disponible
                   + (IF o.fila.estado_pago = "Reembolsado" THEN devuelto(p) ELSE 0)]]]

\* UPDATE pagos SET estado_pago = %s WHERE id_pago = %s
AplicarEstadoPago(d, o) ==
  [d EXCEPT !.pagos =
     {IF g.id_pago = o.id THEN [g EXCEPT !.estado_pago = o.fila.estado_pago] ELSE g
        : g \in @}]

\* One write of a transaction, applied to the tables.
AplicarOp(d, o) ==
  CASE o.op = "ins_pedido" ->
         [d EXCEPT !.pedidos = (o.id :> o.fila) @@ @]
    [] o.op = "ins_detalle" ->
         [d EXCEPT !.detalle_pedidos = @ \cup {o.fila}]
    [] o.op = "upd_inventario" ->
         IF o.id \in DOMAIN d.inventarios
         THEN [d EXCEPT !.inventarios[o.id].cantidad_disponible = Decremento(@, o.fila.cantidad)]
         ELSE d
    [] o.op = "ins_pago" ->
         [d EXCEPT !.pagos = @ \cup {o.fila}]
    [] o.op = "upd_estado_pedido" ->
         IF o.id \in DOMAIN d.pedidos
         THEN [d EXCEPT !.pedidos[o.id].estado_pedido = o.fila.estado_pedido]
         ELSE d
    [] o.op = "ins_venta" ->
         [d EXCEPT !.ventas = @ \cup {o.fila}]
    [] o.op = "ins_detalle_venta" ->
         [d EXCEPT !.detalles_venta = @ \cup {o.fila}]
    [] o.op = "ins_carrito" ->
         [d EXCEPT !.carrito = @ \cup {o.fila}]
    [] o.op = "upd_carrito" ->
         [d EXCEPT !.carrito =
            {IF c.id_item_carrito = o.id THEN [c EXCEPT !.cantidad = o.fila.cantidad] ELSE c
               : c \in @}]
    [] o.op = "del_carrito" ->
         [d EXCEPT !.carrito = {c \in @ : c.id_item_carrito \notin o.fila.ids}]
    [] o.op = "upd_estado_pago" -> AplicarEstadoPago(d, o)
    [] o.op = "upd_precio" ->
         IF o.id \in DOMAIN d.productos THEN AplicarPrecio(d, o) ELSE d
    [] o.op = "del_pedido" -> AplicarBorrado(d, o)
    [] o.op = "upd_stock" ->
         IF o.id \in DOMAIN d.productos
         THEN [d EXCEPT !.productos[o.id].stock = o.fila.stock]
         ELSE d
    [] OTHER -> d

\* The tables as a transaction's log of writes leaves them.
RECURSIVE Aplicar(_, _)
Aplicar(d, log) ==
  IF log = <<>> THEN d ELSE Aplicar(AplicarOp(d, Head(log)), Tail(log))

\* conn.commit(): the writes of the transaction become the committed tables.
Commit(d, log) == Aplicar(d, log)

\* conn.rollback(): the writes of the transaction so far are discarded; what
\* is left of its log is empty.
Rollback(log) == <<>>

\* (a session that commits on its way out of an exception)
TrasExcepcionCommit(d, log) == Aplicar(d, log)

\* The tables after an exception leaves `with db_session()`: the except
\* clause rolls back and the connection is closed, nothing is committed.
TrasExcepcion(d, log) == d

\* What request r reads: the committed rows and its own uncommitted writes.
Vista(r) == Aplicar(db, req[r].tx)

\* ----------------------------------------------------------- row locks
\* (a lock on the whole table)
FilaTabla(tabla, id) == <<tabla, 0>>

\* the row of a table that a statement locks
Fila(tabla, id) == <<tabla, id>>
Titular(f) == {l[2] : l \in {m \in locks : m[1] = f}}
\* (a build whose SELECT lacks FOR UPDATE)
SinBloqueo(r, f) == TRUE

LibrePara(r, f) == Titular(f) \subseteq {r}
Bloquear(r, f) == locks \cup {<<f, r>>}
Soltar(r) == {l \in locks : l[2] # r}

\* ------------------------------------------------------ request plumbing
Llega(r) ==
  /\ req[r].pc = "idle"
  /\ \A q \in Reqs : q < r => req[q].pc # "idle"

\* The request ends with an HTTP response; its transaction is over.
Fin(r, code, m) ==
  [req[r] EXCEPT !.pc = "fin", !.resp = code, !.msg = m, !.tx = <<>>]

EnTransaccion(r) == req[r].pc \notin {"idle", "fin"}

\* A return inside `with db_session()`: the generator resumes after the yield
\* and commits whatever the transaction still holds (helpers.py line 70).
Salir(r, code, m, log) ==
  /\ db' = Commit(db, log)
  /\ locks' = Soltar(r)
  /\ req' = [req EXCEPT ![r] = Fin(r, code, m)]

\* An exception inside `with db_session()`: rollback, then the caller's
\* except clause answers 500 (helpers.py lines 71-75).
SalirConError(r, m) ==
  /\ db' = TrasExcepcion(db, req[r].tx)
  /\ locks' = Soltar(r)
  /\ req' = [req EXCEPT ![r] = Fin(r, 500, m)]

\* ------------------------------------------------------- crear_pedido
IniciarPedido(r, u, ls) ==
  /\ Llega(r)
  /\ IF ls = <<>>
     THEN req' = [req EXCEPT ![r] =
                    [ReqVacia EXCEPT !.kind = "pedido", !.usuario = u, !.productos = ls,
                                     !.pc = "fin", !.resp = 400, !.msg = "lista_requerida"]]
     ELSE req' = [req EXCEPT ![r] =
                    [ReqVacia EXCEPT !.kind = "pedido", !.usuario = u, !.productos = ls,
                                     !.pc = "cliente"]]
  /\ UNCHANGED <<db, lastid, locks>>

PedidoCliente(r) ==
  /\ req[r].kind = "pedido" /\ req[r].pc = "cliente"
  /\ IF ClienteDe(req[r].usuario) = SinCliente
     THEN Salir(r, 400, "perfil_no_encontrado", req[r].tx)
     ELSE /\ req' = [req EXCEPT ![r].id_cliente = ClienteDe(req[r].usuario),
                                ![r].pc = "lineas", ![r].idx = 1]
          /\ UNCHANGED <<db, locks>>
  /\ UNCHANGED lastid

\* (a check that also refuses the last unit)
InventarioInsuficienteEstricto(cantidad, cantidad_disponible) ==
  cantidad >= cantidad_disponible

\* the stock check of one line
InventarioInsuficiente(cantidad, cantidad_disponible) == cantidad > cantidad_disponible

\* (a total that forgets the quantity)
SubtotalSinCantidad(precio_unitario, cantidad) == precio_unitario

\* what one line adds to total_pedido
Subtotal(precio_unitario, cantidad) == precio_unitario * cantidad

\* One pass of the first loop: validate the item, lock and read the product,
\* check the stock, accumulate the total.
PedidoLinea(r) ==
  /\ req[r].kind = "pedido" /\ req[r].pc = "lineas"
  /\ LET item == req[r].productos[req[r].idx]
         id_producto == item.id_producto
         cantidad == item.cantidad
         f == Fila("inventarios", id_producto)
     IN
     IF id_producto <= 0
     THEN Salir(r, 400, "id_producto_invalido", Rollback(req[r].tx))
     ELSE IF cantidad <= 0
     THEN Salir(r, 400, "cantidad_invalida", Rollback(req[r].tx))
     ELSE IF id_producto \notin Productos
     THEN Salir(r, 400, "producto_no_encontrado", Rollback(req[r].tx))
     ELSE /\ LibrePara(r, f)
          /\ LET precio_unitario == Vista(r).productos[id_producto].precio_venta
                 cantidad_disponible == Vista(r).inventarios[id_producto].cantidad_disponible
             IN
             IF InventarioInsuficiente(cantidad, cantidad_disponible)
             THEN /\ db' = Commit(db, Rollback(req[r].tx))
                  /\ locks' = Soltar(r)
                  /\ req' = [req EXCEPT ![r] =
                               [Fin(r, 400, "inventario_insuficiente")
                                  EXCEPT !.cantidad_disponible = cantidad_disponible]]
             ELSE /\ req' = [req EXCEPT
                       ![r].cantidad_disponible = cantidad_disponible,
                       ![r].total_pedido = @ + Subtotal(precio_unitario, cantidad),
                       ![r].detalles_para_insertar =
                          Append(@, [id_producto |-> id_producto, cantidad |-> cantidad,
                                     precio_unitario |-> precio_unitario]),
                       ![r].idx = @ + 1,
                       ![r].pc = IF req[r].idx = Len(req[r].productos)
                                 THEN "insertar_pedido" ELSE "lineas"]
                  /\ locks' = Bloquear(r, f)
                  /\ UNCHANGED db
  /\ UNCHANGED lastid

PedidoInsertar(r) ==
  /\ req[r].kind = "pedido" /\ req[r].pc = "insertar_pedido"
  /\ LET id_pedido == lastid.pedidos + 1
     IN /\ lastid' = [lastid EXCEPT !.pedidos = id_pedido]
        /\ req' = [req EXCEPT
             ![r].id_pedido = id_pedido,
             ![r].tx = Append(@, [op |-> "ins_pedido", id |-> id_pedido,
                                  fila |-> [id_cliente |-> req[r].id_cliente,
                                            total_pedido |-> req[r].total_pedido,
                                            estado_pedido |-> "Pendiente"]]),
             ![r].idx = 1,
             ![r].pc = "detalles"]
        /\ locks' = Bloquear(r, Fila("pedidos", id_pedido))
  /\ UNCHANGED db

\* One pass of the second loop: INSERT the detail row, UPDATE the inventory.
PedidoDetalle(r) ==
  /\ req[r].kind = "pedido" /\ req[r].pc = "detalles"
  /\ LET item_detalle == req[r].detalles_para_insertar[req[r].idx]
         id_detalle_pedido == lastid.detalle_pedidos + 1
     IN /\ lastid' = [lastid EXCEPT !.detalle_pedidos = id_detalle_pedido]
        /\ req' = [req EXCEPT
             ![r].tx = @ \o
                << [op |-> "ins_detalle", id |-> id_detalle_pedido,
                    fila |-> [id_detalle_pedido |-> id_detalle_pedido,
                              id_pedido |-> req[r].id_pedido,
                              id_producto |-> item_detalle.id_producto,
                              cantidad |-> item_detalle.cantidad,
                              precio_unitario |-> item_detalle.precio_unitario]],
                   [op |-> "upd_inventario", id |-> item_detalle.id_producto,
                    fila |-> [cantidad |-> item_detalle.cantidad]] >>,
             ![r].idx = @ + 1,
             ![r].pc = IF req[r].idx = Len(req[r].detalles_para_insertar)
                       THEN "commit" ELSE "detalles"]
  /\ UNCHANGED <<db, locks>>

PedidoCommit(r) ==
  /\ req[r].kind = "pedido" /\ req[r].pc = "commit"
  /\ Salir(r, 201, "pedido_creado", req[r].tx)
  /\ UNCHANGED lastid

\* ------------------------------------------------------- procesar_pago
EstadosValidos == {"Pendiente", "En proceso", "Completado", "Cancelado"}

\* (a check that forgets the cancelled orders)
EsTerminalSoloCompletado(estado_pedido) == estado_pedido = "Completado"

\* an order in one of these states cannot be paid
EsTerminal(estado_pedido) == estado_pedido \in {"Completado", "Cancelado"}

\* (a handler that trusts the amount in the request)
MontoDelCliente(pedido, monto_cliente) == monto_cliente

\* the amount charged: the order's total, whatever the client sent
MontoPago(pedido, monto_cliente) == pedido.total_pedido

IniciarPago(r, u, id_pedido, monto_cliente) ==
  /\ Llega(r)
  /\ req' = [req EXCEPT ![r] =
       [ReqVacia EXCEPT !.kind = "pago", !.usuario = u, !.id_pedido = id_pedido,
                        !.monto_cliente = monto_cliente,
                        !.pc = IF id_pedido <= 0 THEN "fin" ELSE "cliente",
                        !.resp = IF id_pedido <= 0 THEN 400 ELSE 0,
                        !.msg = IF id_pedido <= 0 THEN "id_pedido_invalido" ELSE "none"]]
  /\ UNCHANGED <<db, lastid, locks>>

PagoCliente(r) ==
  /\ req[r].kind = "pago" /\ req[r].pc = "cliente"
  /\ IF ClienteDe(req[r].usuario) = SinCliente
     THEN Salir(r, 400, "perfil_no_encontrado", req[r].tx)
     ELSE /\ req' = [req EXCEPT ![r].id_cliente = ClienteDe(req[r].usuario),
                                ![r].pc = "bloquear_pedido"]
          /\ UNCHANGED <<db, locks>>
  /\ UNCHANGED lastid

\* SELECT ... FROM pedidos WHERE id_pedido AND id_cliente FOR UPDATE, and the
\* two checks on the row it returns.
\* (a lookup by id_pedido alone)
PedidoDeCualquiera(filas, id_pedido, id_cliente) == id_pedido \in DOMAIN filas

\* SELECT ... FROM pedidos WHERE id_pedido = %s AND id_cliente = %s
PedidoDelCliente(filas, id_pedido, id_cliente) ==
  /\ id_pedido \in DOMAIN filas
  /\ filas[id_pedido].id_cliente = id_cliente

PagoBloquearPedido(r) ==
  /\ req[r].kind = "pago" /\ req[r].pc = "bloquear_pedido"
  /\ LET f == Fila("pedidos", req[r].id_pedido)
         filas == Vista(r).pedidos
     IN /\ LibrePara(r, f)
        /\ IF ~PedidoDelCliente(filas, req[r].id_pedido, req[r].id_cliente)
           THEN Salir(r, 404, "pedido_no_encontrado", req[r].tx)
           ELSE LET pedido == filas[req[r].id_pedido]
                IN IF EsTerminal(pedido.estado_pedido)
                   THEN /\ db' = Commit(db, req[r].tx)
                        /\ locks' = Soltar(r)
                        /\ req' = [req EXCEPT ![r] =
                                     [Fin(r, 400, "estado_terminal")
                                        EXCEPT !.estado_pedido = pedido.estado_pedido]]
                   ELSE /\ req' = [req EXCEPT
                             ![r].monto_pago = MontoPago(pedido, req[r].monto_cliente),
                             ![r].estado_pedido = pedido.estado_pedido,
                             ![r].pc = "insertar_pago"]
                        /\ locks' = Bloquear(r, f)
                        /\ UNCHANGED db
  /\ UNCHANGED lastid

PagoInsertar(r) ==
  /\ req[r].kind = "pago" /\ req[r].pc = "insertar_pago"
  /\ LET id_pago == lastid.pagos + 1
     IN /\ lastid' = [lastid EXCEPT !.pagos = id_pago]
        /\ req' = [req EXCEPT
             ![r].id_pago = id_pago,
             ![r].tx = Append(@, [op |-> "ins_pago", id |-> id_pago,
                                  fila |-> [id_pago |-> id_pago,
                                            id_pedido |-> req[r].id_pedido,
                                            monto |-> req[r].monto_pago,
                                            estado_pago |-> "Aprobado"]]),
             ![r].pc = "actualizar_pedido"]
  /\ UNCHANGED <<db, locks>>

PagoActualizarPedido(r) ==
  /\ req[r].kind = "pago" /\ req[r].pc = "actualizar_pedido"
  /\ req' = [req EXCEPT
       ![r].tx = Append(@, [op |-> "upd_estado_pedido", id |-> req[r].id_pedido,
                            fila |-> [estado_pedido |-> "Completado"]]),
       ![r].pc = "commit"]
  /\ UNCHANGED <<db, lastid, locks>>

\* conn.commit() of line 134; the handler goes on to read the payment back.
PagoCommit(r) ==
  /\ req[r].kind = "pago" /\ req[r].pc = "commit"
  /\ db' = Commit(db, req[r].tx)
  /\ locks' = Soltar(r)
  /\ req' = [req EXCEPT ![r].tx = <<>>, ![r].pc = "post_commit"]
  /\ UNCHANGED lastid

PagoRespuesta(r) ==
  /\ req[r].kind = "pago" /\ req[r].pc = "post_commit"
  /\ Salir(r, 200, "pago_procesado", req[r].tx)
  /\ UNCHANGED lastid

\* ------------------------------------- actualizar_estado_pedido_admin
IniciarEstado(r, id_pedido, estado_pedido) ==
  /\ Llega(r)
  /\ req' = [req EXCEPT ![r] =
       [ReqVacia EXCEPT !.kind = "estado", !.id_pedido = id_pedido,
                        !.estado_pedido = estado_pedido,
                        !.pc = IF estado_pedido \in EstadosValidos THEN "existe" ELSE "fin",
                        !.resp = IF estado_pedido \in EstadosValidos THEN 0 ELSE 400,
                        !.msg = IF estado_pedido \in EstadosValidos
                                THEN "none" ELSE "estado_invalido"]]
  /\ UNCHANGED <<db, lastid, locks>>

EstadoExiste(r) ==
  /\ req[r].kind = "estado" /\ req[r].pc = "existe"
  /\ IF req[r].id_pedido \notin DOMAIN Vista(r).pedidos
     THEN Salir(r, 404, "pedido_no_encontrado", req[r].tx)
     ELSE /\ req' = [req EXCEPT ![r].pc = "actualizar"]
          /\ UNCHANGED <<db, locks>>
  /\ UNCHANGED lastid

\* The UPDATE (it waits for the row lock), the two SELECTs that build the
\* answer, and the commit of db_session on return.
EstadoActualizar(r) ==
  /\ req[r].kind = "estado" /\ req[r].pc = "actualizar"
  /\ LibrePara(r, Fila("pedidos", req[r].id_pedido))
  /\ LET log == Append(req[r].tx,
                       [op |-> "upd_estado_pedido", id |-> req[r].id_pedido,
                        fila |-> [estado_pedido |-> req[r].estado_pedido]])
     IN IF req[r].id_pedido \in DOMAIN Aplicar(db, log).pedidos
        THEN Salir(r, 200, "estado_actualizado", log)
        ELSE SalirConError(r, "error_interno")
  /\ UNCHANGED lastid

\* ------------------------------------------------ actualizar_producto
\* The administrator changes the price of a product (the body carries only
\* `precio`).  crear_pedido reads the price as p.precio_venta: the one price
\* of the product is the field both handlers name.
IniciarPrecio(r, id_producto, precio) ==
  /\ Llega(r)
  /\ req' = [req EXCEPT ![r] =
       [ReqVacia EXCEPT !.kind = "precio", !.id_producto = id_producto,
                        !.precio = precio,
                        !.pc = IF precio <= 0 THEN "fin" ELSE "existe",
                        !.resp = IF precio <= 0 THEN 400 ELSE 0,
                        !.msg = IF precio <= 0 THEN "precio_invalido" ELSE "none"]]
  /\ UNCHANGED <<db, lastid, locks>>

PrecioExiste(r) ==
  /\ req[r].kind = "precio" /\ req[r].pc = "existe"
  /\ IF req[r].id_producto \notin DOMAIN Vista(r).productos
     THEN Salir(r, 404, "producto_no_encontrado", req[r].tx)
     ELSE /\ req' = [req EXCEPT ![r].pc = "actualizar"]
          /\ UNCHANGED <<db, locks>>
  /\ UNCHANGED lastid

\* The UPDATE waits for the row of the product, which the SELECT ... FOR
\* UPDATE of crear_pedido locks together with the inventory row it joins;
\* then the SELECT for the answer and the commit of db_session on return.
PrecioActualizar(r) ==
  /\ req[r].kind = "precio" /\ req[r].pc = "actualizar"
  /\ LibrePara(r, Fila("inventarios", req[r].id_producto))
  /\ Salir(r, 200, "producto_actualizado",
           Append(req[r].tx, [op |-> "upd_precio", id |-> req[r].id_producto,
                              fila |-> [precio |-> req[r].precio]]))
  /\ UNCHANGED lastid

\* ---------------------------------------------- eliminar_pedido_admin
IniciarEliminarPedido(r, id_pedido) ==
  /\ Llega(r)
  /\ req' = [req EXCEPT ![r] =
       [ReqVacia EXCEPT !.kind = "eliminar_pedido", !.id_pedido = id_pedido,
                        !.pc = "existe"]]
  /\ UNCHANGED <<db, lastid, locks>>

EliminarPedidoExiste(r) ==
  /\ req[r].kind = "eliminar_pedido" /\ req[r].pc = "existe"
  /\ IF req[r].id_pedido \notin DOMAIN Vista(r).pedidos
     THEN Salir(r, 404, "pedido_no_encontrado", req[r].tx)
     ELSE /\ req' = [req EXCEPT ![r].pc = "borrar"]
          /\ UNCHANGED <<db, locks>>
  /\ UNCHANGED lastid

\* The DELETE waits for the lock of the row; the handler returns 200 whatever
\* the DELETE matched, and db_session commits on the way out.
EliminarPedidoBorrar(r) ==
  /\ req[r].kind = "eliminar_pedido" /\ req[r].pc = "borrar"
  /\ LibrePara(r, Fila("pedidos", req[r].id_pedido))
  /\ Salir(r, 200, "pedido_eliminado",
           Append(req[r].tx, [op |-> "del_pedido", id |-> req[r].id_pedido]))
  /\ UNCHANGED lastid

\* ------------------------------------------- actualizar_stock_producto
\* PATCH /inventarios/<id_producto>/stock with an integer `cantidad`.
IniciarStock(r, id_producto, cantidad_ajuste) ==
  /\ Llega(r)
  /\ req' = [req EXCEPT ![r] =
       [ReqVacia EXCEPT !.kind = "stock", !.id_producto = id_producto,
                        !.cantidad_ajuste = cantidad_ajuste, !.pc = "leer"]]
  /\ UNCHANGED <<db, lastid, locks>>

\* nuevo_stock = producto['stock'] + cantidad_ajuste
NuevoStock(stock, cantidad_ajuste) == stock + cantidad_ajuste

\* (a check that lets the stock go one below zero)
StockNegativoHolgado(nuevo_stock) == nuevo_stock < -1

\* if nuevo_stock < 0
StockNegativo(nuevo_stock) == nuevo_stock < 0

\* The plain SELECT of the stock (no lock), the sum and the check.
StockLeer(r) ==
  /\ req[r].kind = "stock" /\ req[r].pc = "leer"
  /\ IF req[r].id_producto \notin DOMAIN Vista(r).productos
     THEN Salir(r, 404, "producto_no_encontrado", req[r].tx)
     ELSE LET producto == Vista(r).productos[req[r].id_producto]
              nuevo_stock == NuevoStock(producto.stock, req[r].cantidad_ajuste)
          IN IF StockNegativo(nuevo_stock)
             THEN /\ db' = Commit(db, req[r].tx)
                  /\ locks' = Soltar(r)
                  /\ req' = [req EXCEPT ![r] =
                               [Fin(r, 400, "stock_negativo")
                                  EXCEPT !.stock = producto.stock,
                                         !.nuevo_stock = nuevo_stock]]
             ELSE /\ req' = [req EXCEPT ![r].stock = producto.stock,
                                        ![r].nuevo_stock = nuevo_stock,
                                        ![r].pc = "actualizar"]
                  /\ UNCHANGED <<db, locks>>
  /\ UNCHANGED lastid

\* UPDATE productos SET stock = <nuevo_stock>: it waits for the row, writes
\* the value computed from the earlier read, and counts the rows it changed
\* (none when the row already holds that value: 500); the return commits.
StockActualizar(r) ==
  /\ req[r].kind = "stock" /\ req[r].pc = "actualizar"
  /\ LibrePara(r, Fila("inventarios", req[r].id_producto))
  /\ LET rowcount == IF db.productos[req[r].id_producto].stock = req[r].nuevo_stock
                     THEN 0 ELSE 1
     IN IF rowcount = 0
        THEN /\ db' = Commit(db, req[r].tx)
             /\ locks' = Soltar(r)
             /\ req' = [req EXCEPT ![r] = [Fin(r, 500, "no_actualizado")
                                             EXCEPT !.rowcount = rowcount]]
        ELSE /\ db' = Commit(db, Append(req[r].tx,
                                        [op |-> "upd_stock", id |-> req[r].id_producto,
                                         fila |-> [stock |-> req[r].nuevo_stock]]))
             /\ locks' = Soltar(r)
             /\ req' = [req EXCEPT ![r] = [Fin(r, 200, "stock_actualizado")
                                             EXCEPT !.rowcount = rowcount]]
  /\ UNCHANGED lastid

\* ------------------------------------------ actualizar_estado_pago_admin
EstadosPagoValidos == {"Pendiente", "Aprobado", "Rechazado", "Reembolsado"}

IniciarEstadoPago(r, id_pago, estado_pago) ==
  /\ Llega(r)
  /\ req' = [req EXCEPT ![r] =
       [ReqVacia EXCEPT !.kind = "estado_pago", !.id_pago = id_pago,
                        !.estado_pago = estado_pago,
                        !.pc = IF estado_pago \in EstadosPagoValidos THEN "existe" ELSE "fin",
                        !.resp = IF estado_pago \in EstadosPagoValidos THEN 0 ELSE 400,
                        !.msg = IF estado_pago \in EstadosPagoValidos
                                THEN "none" ELSE "estado_pago_invalido"]]
  /\ UNCHANGED <<db, lastid, locks>>

EstadoPagoExiste(r) ==
  /\ req[r].kind = "estado_pago" /\ req[r].pc = "existe"
  /\ IF \A g \in Vista(r).pagos : g.id_pago # req[r].id_pago
     THEN Salir(r, 404, "pago_no_encontrado", req[r].tx)
     ELSE /\ req' = [req EXCEPT ![r].pc = "actualizar"]
          /\ UNCHANGED <<db, locks>>
  /\ UNCHANGED lastid

\* UPDATE pagos SET estado_pago (it waits for the row lock) and conn.commit()
\* of line 309; the handler goes on to read the payment back.
EstadoPagoActualizar(r) ==
  /\ req[r].kind = "estado_pago" /\ req[r].pc = "actualizar"
  /\ LibrePara(r, Fila("pagos", req[r].id_pago))
  /\ db' = Commit(db, Append(req[r].tx,
                             [op |-> "upd_estado_pago", id |-> req[r].id_pago,
                              fila |-> [estado_pago |-> req[r].estado_pago]]))
  /\ locks' = Soltar(r)
  /\ req' = [req EXCEPT ![r].tx = <<>>, ![r].pc = "post_commit"]
  /\ UNCHANGED lastid

EstadoPagoRespuesta(r) ==
  /\ req[r].kind = "estado_pago" /\ req[r].pc = "post_commit"
  /\ Salir(r, 200, "estado_pago_actualizado", req[r].tx)
  /\ UNCHANGED lastid

\* ---------------------------------------------------------------- carrito
\* The SELECTs of a cart handler are plain reads of one transaction: they
\* all see the rows committed when the first of them ran (REPEATABLE READ,
\* the default of InnoDB), so the handler reads in one step.  UPDATE and
\* DELETE by id_item_carrito lock that row; DELETE by id_cliente locks the
\* rows it finds and the customer's index range, which keeps INSERTs of
\* other transactions for that customer out until it commits.
Rango(id_cliente) == Fila("carrito_rango", id_cliente)

ItemsDe(d, id_cliente, id_producto) ==
  {c \in d.carrito : c.id_cliente = id_cliente /\ c.id_producto = id_producto}

\* fetchone() of SELECT id_item_carrito, cantidad FROM carrito WHERE
\* id_cliente AND id_producto: the first row in primary-key order, if any
ItemExistente(d, id_cliente, id_producto) ==
  LET S == ItemsDe(d, id_cliente, id_producto)
  IN IF S = {} THEN SinItem
     ELSE LET c == CHOOSE x \in S : \A y \in S : x.id_item_carrito <= y.id_item_carrito
          IN [id_item_carrito |-> c.id_item_carrito, cantidad |-> c.cantidad]

\* the rows of customer c that another open transaction has locked
OtrosEnCarrito(r, id_cliente) ==
  {q \in Reqs \ {r} :
     /\ req[q].id_cliente = id_cliente
     /\ \E l \in locks : l[2] = q /\ l[1][1] = "carrito"}

\* (a check that lets the cart hold one unit more than the stock)
ExcedeStockHolgado(cantidad, stock_disponible) == cantidad > stock_disponible + 1

\* cantidad > stock_disponible, nueva_cantidad > stock_disponible
ExcedeStock(cantidad, stock_disponible) == cantidad > stock_disponible

\* (an add that replaces the quantity in the cart)
NuevaCantidadReemplaza(existente, cantidad) == cantidad

\* nueva_cantidad = item_existente['cantidad'] + cantidad
NuevaCantidad(existente, cantidad) == existente + cantidad

\* ------------------------------------------ agregar_producto_al_carrito
IniciarAgregar(r, u, id_producto, cantidad) ==
  /\ Llega(r)
  /\ LET m == IF id_producto = 0 \/ cantidad = 0 THEN "campos_requeridos"
              ELSE IF id_producto <= 0 THEN "id_producto_invalido"
              ELSE IF cantidad <= 0 THEN "cantidad_invalida"
              ELSE "none"
     IN req' = [req EXCEPT ![r] =
          [ReqVacia EXCEPT !.kind = "agregar", !.usuario = u, !.id_producto = id_producto,
                           !.cantidad = cantidad,
                           !.pc = IF m = "none" THEN "leer" ELSE "fin",
                           !.resp = IF m = "none" THEN 0 ELSE 400,
                           !.msg = m]]
  /\ UNCHANGED <<db, lastid, locks>>

\* customer, product and stock, the item already in the cart, the two checks
AgregarLeer(r) ==
  /\ req[r].kind = "agregar" /\ req[r].pc = "leer"
  /\ LET id_cliente == ClienteDe(req[r].usuario)
         id_producto == req[r].id_producto
     IN IF id_cliente = SinCliente
        THEN Salir(r, 400, "perfil_no_encontrado", req[r].tx)
        ELSE IF id_producto \notin Productos
        THEN Salir(r, 404, "producto_no_encontrado", req[r].tx)
        ELSE LET stock_disponible == Vista(r).inventarios[id_producto].cantidad_disponible
                 item_existente == ItemExistente(Vista(r), id_cliente, id_producto)
                 leida == [req[r] EXCEPT !.id_cliente = id_cliente,
                                         !.cantidad_disponible = stock_disponible,
                                         !.item_existente = item_existente]
             IN IF \/ ExcedeStock(req[r].cantidad, stock_disponible)
                   \/ /\ item_existente # SinItem
                      /\ ExcedeStock(NuevaCantidad(item_existente.cantidad, req[r].cantidad),
                                     stock_disponible)
                THEN /\ db' = Commit(db, req[r].tx)
                     /\ locks' = Soltar(r)
                     /\ req' = [req EXCEPT ![r] =
                          [leida EXCEPT !.pc = "fin", !.resp = 400,
                                        !.msg = "inventario_insuficiente", !.tx = <<>>]]
                ELSE /\ req' = [req EXCEPT ![r] = [leida EXCEPT !.pc = "escribir"]]
                     /\ UNCHANGED <<db, locks>>
  /\ UNCHANGED lastid

\* UPDATE carrito SET cantidad WHERE id_item_carrito, or INSERT INTO carrito
AgregarEscribir(r) ==
  /\ req[r].kind = "agregar" /\ req[r].pc = "escribir"
  /\ IF req[r].item_existente # SinItem
     THEN LET f == Fila("carrito", req[r].item_existente.id_item_carrito)
          IN /\ LibrePara(r, f)
             /\ locks' = Bloquear(r, f)
             /\ req' = [req EXCEPT
                  ![r].tx = Append(@, [op |-> "upd_carrito",
                                       id |-> req[r].item_existente.id_item_carrito,
                                       fila |-> [cantidad |->
                                          NuevaCantidad(req[r].item_existente.cantidad,
                                                        req[r].cantidad)]]),
                  ![r].pc = "commit"]
             /\ UNCHANGED lastid
     ELSE LET item_id == lastid.carrito + 1
          IN /\ LibrePara(r, Rango(req[r].id_cliente))
             /\ lastid' = [lastid EXCEPT !.carrito = item_id]
             /\ locks' = Bloquear(r, Fila("carrito", item_id))
             /\ req' = [req EXCEPT
                  ![r].tx = Append(@, [op |-> "ins_carrito", id |-> item_id,
                                       fila |-> [id_item_carrito |-> item_id,
                                                 id_cliente |-> req[r].id_cliente,
                                                 id_producto |-> req[r].id_producto,
                                                 cantidad |-> req[r].cantidad]]),
                  ![r].pc = "commit"]
  /\ UNCHANGED db

\* the SELECT that builds the answer, conn.commit(), 201
AgregarCommit(r) ==
  /\ req[r].kind = "agregar" /\ req[r].pc = "commit"
  /\ Salir(r, 201, "producto_agregado", req[r].tx)
  /\ UNCHANGED lastid

\* ----------------------------- actualizar_cantidad_producto_en_carrito
IniciarActualizar(r, u, id_producto, nueva_cantidad) ==
  /\ Llega(r)
  /\ req' = [req EXCEPT ![r] =
       [ReqVacia EXCEPT !.kind = "actualizar", !.usuario = u, !.id_producto = id_producto,
                        !.cantidad = nueva_cantidad,
                        !.pc = IF nueva_cantidad < 0 THEN "fin" ELSE "leer",
                        !.resp = IF nueva_cantidad < 0 THEN 400 ELSE 0,
                        !.msg = IF nueva_cantidad < 0 THEN "cantidad_invalida" ELSE "none"]]
  /\ UNCHANGED <<db, lastid, locks>>

\* customer, the item in the cart, and for a quantity > 0 the stock check
ActualizarLeer(r) ==
  /\ req[r].kind = "actualizar" /\ req[r].pc = "leer"
  /\ LET id_cliente == ClienteDe(req[r].usuario)
         item_carrito == ItemExistente(Vista(r), id_cliente, req[r].id_producto)
     IN IF id_cliente = SinCliente
        THEN Salir(r, 404, "perfil_no_encontrado", req[r].tx)
        ELSE IF item_carrito = SinItem
        THEN /\ db' = Commit(db, req[r].tx)
             /\ locks' = Soltar(r)
             /\ req' = [req EXCEPT ![r] =
                  [Fin(r, 404, "no_en_carrito") EXCEPT !.id_cliente = id_cliente]]
        ELSE LET stock_disponible ==
                   Vista(r).inventarios[req[r].id_producto].cantidad_disponible
                 leida == [req[r] EXCEPT !.id_cliente = id_cliente,
                                         !.item_existente = item_carrito]
             IN IF req[r].cantidad = 0
                THEN /\ req' = [req EXCEPT ![r] = [leida EXCEPT !.pc = "escribir"]]
                     /\ UNCHANGED <<db, locks>>
                ELSE IF ExcedeStock(req[r].cantidad, stock_disponible)
                THEN /\ db' = Commit(db, req[r].tx)
                     /\ locks' = Soltar(r)
                     /\ req' = [req EXCEPT ![r] =
                          [leida EXCEPT !.cantidad_disponible = stock_disponible,
                                        !.pc = "fin", !.resp = 400,
                                        !.msg = "inventario_insuficiente", !.tx = <<>>]]
                ELSE /\ req' = [req EXCEPT ![r] =
                          [leida EXCEPT !.cantidad_disponible = stock_disponible,
                                        !.pc = "escribir"]]
                     /\ UNCHANGED <<db, locks>>
  /\ UNCHANGED lastid

\* DELETE (quantity 0) or UPDATE of the row, by id_item_carrito
ActualizarEscribir(r) ==
  /\ req[r].kind = "actualizar" /\ req[r].pc = "escribir"
  /\ LET id_item_carrito == req[r].item_existente.id_item_carrito
         f == Fila("carrito", id_item_carrito)
     IN /\ LibrePara(r, f)
        /\ locks' = Bloquear(r, f)
        /\ req' = [req EXCEPT
             ![r].tx = Append(@,
                IF req[r].cantidad = 0
                THEN [op |-> "del_carrito", id |-> id_item_carrito,
                      fila |-> [ids |-> {id_item_carrito}]]
                ELSE [op |-> "upd_carrito", id |-> id_item_carrito,
                      fila |-> [cantidad |-> req[r].cantidad]]),
             ![r].pc = "commit"]
  /\ UNCHANGED <<db, lastid>>

\* conn.commit(); after a DELETE the handler answers at once, after an
\* UPDATE it reads the item back first
ActualizarCommit(r) ==
  /\ req[r].kind = "actualizar" /\ req[r].pc = "commit"
  /\ IF req[r].cantidad = 0
     THEN Salir(r, 200, "producto_eliminado", req[r].tx)
     ELSE /\ db' = Commit(db, req[r].tx)
          /\ locks' = Soltar(r)
          /\ req' = [req EXCEPT ![r].tx = <<>>, ![r].pc = "post_commit"]
  /\ UNCHANGED lastid

ActualizarRespuesta(r) ==
  /\ req[r].kind = "actualizar" /\ req[r].pc = "post_commit"
  /\ Salir(r, 200, "cantidad_actualizada", req[r].tx)
  /\ UNCHANGED lastid

\* ------------------------- eliminar_producto_del_carrito, vaciar_mi_carrito
IniciarEliminar(r, u, id_producto) ==
  /\ Llega(r)
  /\ req' = [req EXCEPT ![r] =
       [ReqVacia EXCEPT !.kind = "eliminar", !.usuario = u, !.id_producto = id_producto,
                        !.pc = "leer"]]
  /\ UNCHANGED <<db, lastid, locks>>

IniciarVaciar(r, u) ==
  /\ Llega(r)
  /\ req' = [req EXCEPT ![r] = [ReqVacia EXCEPT !.kind = "vaciar", !.usuario = u,
                                                !.pc = "leer"]]
  /\ UNCHANGED <<db, lastid, locks>>

\* SELECT id_cliente FROM clientes WHERE id_usuario
BorrarLeer(r) ==
  /\ req[r].kind \in {"eliminar", "vaciar"} /\ req[r].pc = "leer"
  /\ IF ClienteDe(req[r].usuario) = SinCliente
     THEN Salir(r, 404, "perfil_no_encontrado", req[r].tx)
     ELSE /\ req' = [req EXCEPT ![r].id_cliente = ClienteDe(req[r].usuario),
                                ![r].pc = "borrar"]
          /\ UNCHANGED <<db, locks>>
  /\ UNCHANGED lastid

\* (a DELETE without its WHERE)
FilasABorrarTodas(r) == Vista(r).carrito

\* the rows a DELETE of request r matches
FilasABorrar(r) ==
  {c \in Vista(r).carrito :
     /\ c.id_cliente = req[r].id_cliente
     /\ req[r].kind = "eliminar" => c.id_producto = req[r].id_producto}

\* DELETE FROM carrito WHERE id_cliente [AND id_producto]: it waits for the
\* rows of the customer that open transactions hold
BorrarFilas(r) ==
  /\ req[r].kind \in {"eliminar", "vaciar"} /\ req[r].pc = "borrar"
  /\ OtrosEnCarrito(r, req[r].id_cliente) = {}
  /\ LET ids == {c.id_item_carrito : c \in FilasABorrar(r)}
     IN /\ locks' = locks \cup {<<Rango(req[r].id_cliente), r>>}
                          \cup {<<Fila("carrito", id), r>> : id \in ids}
        /\ req' = [req EXCEPT
             ![r].tx = Append(@, [op |-> "del_carrito", id |-> 0, fila |-> [ids |-> ids]]),
             ![r].rowcount = Cardinality(ids),
             ![r].pc = "commit"]
  /\ UNCHANGED <<db, lastid>>

\* conn.commit(), then the answer from cursor.rowcount
BorrarCommit(r) ==
  /\ req[r].kind \in {"eliminar", "vaciar"} /\ req[r].pc = "commit"
  /\ IF req[r].kind = "eliminar" /\ req[r].rowcount = 0
     THEN Salir(r, 404, "no_en_carrito", req[r].tx)
     ELSE IF req[r].kind = "eliminar"
     THEN Salir(r, 200, "producto_eliminado", req[r].tx)
     ELSE Salir(r, 200, IF req[r].rowcount = 0 THEN "ya_vacio" ELSE "carrito_vaciado",
                req[r].tx)
  /\ UNCHANGED lastid

\* ------------------------------------------ registrar_venta_desde_pedido
\* The function is called with the connection and cursor of the caller's
\* db_session.  It catches every exception and returns False; what it wrote
\* before stays in the caller's open transaction.
EnFuncionVenta(r) ==
  req[r].kind = "venta" /\ req[r].pc \in {"pedido_origen", "insertar_venta", "detalles_venta"}

\* fetchall() of the order's lines, in primary-key order
RECURSIVE EnOrden(_)
EnOrden(S) ==
  IF S = {} THEN <<>>
  ELSE LET x == CHOOSE y \in S : \A z \in S : y.id_detalle_pedido <= z.id_detalle_pedido
       IN <<x>> \o EnOrden(S \ {x})

\* the total of the sale
TotalVenta(pedido_origen) == pedido_origen.total_pedido

\* (a copy that loses the quantity)
FilaDetalleVentaUnidad(id_detalle_venta, id_venta, detalle) ==
  [id_detalle_venta |-> id_detalle_venta, id_venta |-> id_venta,
   id_producto |-> detalle.id_producto, cantidad |-> 1,
   precio_unitario |-> detalle.precio_unitario,
   subtotal |-> detalle.precio_unitario]

\* the detalles_venta row of one order line
FilaDetalleVenta(id_detalle_venta, id_venta, detalle) ==
  [id_detalle_venta |-> id_detalle_venta, id_venta |-> id_venta,
   id_producto |-> detalle.id_producto, cantidad |-> detalle.cantidad,
   precio_unitario |-> detalle.precio_unitario,
   subtotal |-> detalle.cantidad * detalle.precio_unitario]

\* the caller opens its session and calls the function for an order
IniciarVenta(r, id_pedido_origen) ==
  /\ Llega(r)
  /\ req' = [req EXCEPT ![r] =
       [ReqVacia EXCEPT !.kind = "venta", !.id_pedido = id_pedido_origen,
                        !.pc = "pedido_origen"]]
  /\ UNCHANGED <<db, lastid, locks>>

\* return False: the function is over, the caller has the transaction
VentaFalse(r, m) ==
  [req EXCEPT ![r].resultado = "False", ![r].msg = m, ![r].pc = "retorno"]

\* SELECT the order (JOIN clientes) and the id of the state 'Completado'
VentaPedidoOrigen(r) ==
  /\ req[r].kind = "venta" /\ req[r].pc = "pedido_origen"
  /\ LET filas == Vista(r).pedidos
     IN IF \/ req[r].id_pedido \notin DOMAIN filas
           \/ \A e \in Vista(r).estados_venta : e.nombre_estado # "Completado"
        THEN req' = VentaFalse(r, "no_encontrado")
        ELSE req' = [req EXCEPT
               ![r].id_cliente = filas[req[r].id_pedido].id_cliente,
               ![r].total_pedido = filas[req[r].id_pedido].total_pedido,
               ![r].pc = "insertar_venta"]
  /\ UNCHANGED <<db, lastid, locks>>

\* INSERT INTO ventas, then SELECT the lines of the order
VentaInsertar(r) ==
  /\ req[r].kind = "venta" /\ req[r].pc = "insertar_venta"
  /\ LET id_venta_generada == lastid.ventas + 1
         estado == CHOOSE e \in Vista(r).estados_venta : e.nombre_estado = "Completado"
         detalles_pedido == EnOrden({d \in Vista(r).detalle_pedidos :
                                       d.id_pedido = req[r].id_pedido})
     IN /\ lastid' = [lastid EXCEPT !.ventas = id_venta_generada]
        /\ req' = [req EXCEPT
             ![r].id_venta = id_venta_generada,
             ![r].tx = Append(@, [op |-> "ins_venta", id |-> id_venta_generada,
                                  fila |-> [id_venta |-> id_venta_generada,
                                            id_cliente |-> req[r].id_cliente,
                                            id_usuario |-> UsuarioDe(req[r].id_cliente),
                                            total |-> TotalVenta(req[r]),
                                            id_estado_venta |-> estado.id_estado_venta]]),
             ![r].detalles_pedido = detalles_pedido,
             ![r].idx = 1,
             ![r].pc = IF detalles_pedido = <<>> THEN "retorno" ELSE "detalles_venta",
             ![r].resultado = IF detalles_pedido = <<>> THEN "True" ELSE "none"]
  /\ UNCHANGED <<db, locks>>

\* one pass of the loop: INSERT INTO detalles_venta; after the last, return True
VentaDetalle(r) ==
  /\ req[r].kind = "venta" /\ req[r].pc = "detalles_venta"
  /\ LET detalle == req[r].detalles_pedido[req[r].idx]
         id_detalle_venta == lastid.detalles_venta + 1
         ultimo == req[r].idx = Len(req[r].detalles_pedido)
     IN /\ lastid' = [lastid EXCEPT !.detalles_venta = id_detalle_venta]
        /\ req' = [req EXCEPT
             ![r].tx = Append(@, [op |-> "ins_detalle_venta", id |-> id_detalle_venta,
                                  fila |-> FilaDetalleVenta(id_detalle_venta,
                                                            req[r].id_venta, detalle)]),
             ![r].idx = @ + 1,
             ![r].pc = IF ultimo THEN "retorno" ELSE "detalles_venta",
             ![r].resultado = IF ultimo THEN "True" ELSE "none"]
  /\ UNCHANGED <<db, locks>>

\* a statement of the function raises: `except Exception` returns False and
\* leaves the rollback to the caller
VentaExcepcion(r) ==
  /\ EnFuncionVenta(r)
  /\ Cardinality({q \in Reqs : req[q].msg = "error_bd"}) < MaxErroresBD
  /\ req' = VentaFalse(r, "error_bd")
  /\ UNCHANGED <<db, lastid, locks>>

\* The caller's session ends.  After True it leaves the with block and
\* db_session commits.  After False the caller either leaves the block the
\* same way (commit) or raises (rollback): the function asks for the second
\* and enforces neither.
VentaRetorno(r) ==
  /\ req[r].kind = "venta" /\ req[r].pc = "retorno"
  /\ \/ Salir(r, 200, IF req[r].resultado = "True" THEN "venta_registrada" ELSE req[r].msg,
               req[r].tx)
     \/ /\ req[r].resultado = "False"
        /\ SalirConError(r, req[r].msg)
  /\ UNCHANGED lastid

\* ------------------------------------------------- database failures
\* Any statement of an open transaction can fail with a pymysql.Error
\* (connection lost, lock wait timeout, constraint violation).
ErrorBD(r) ==
  /\ EnTransaccion(r)
  /\ ~EnFuncionVenta(r)
  /\ Cardinality({q \in Reqs : req[q].msg = "error_bd"}) < MaxErroresBD
  /\ SalirConError(r, "error_bd")
  /\ UNCHANGED lastid

\* The row the next statement of r has to lock, when another request holds it.
Espera(r) ==
  IF req[r].kind = "pedido" /\ req[r].pc = "lineas"
  THEN LET item == req[r].productos[req[r].idx]
       IN IF item.id_producto \in Productos /\ item.cantidad > 0
          THEN Titular(Fila("inventarios", item.id_producto)) \ {r}
          ELSE {}
  ELSE IF \/ req[r].kind = "pago" /\ req[r].pc = "bloquear_pedido"
          \/ req[r].kind = "estado" /\ req[r].pc = "actualizar"
  THEN Titular(Fila("pedidos", req[r].id_pedido)) \ {r}
  ELSE {}

RECURSIVE Alcanza(_, _)
Alcanza(S, n) ==
  IF n = 0 THEN S
  ELSE Alcanza(S \cup UNION {Espera(q) : q \in S}, n - 1)

\* (a store whose deadlock detector never finds a cycle)
EnCicloNunca(r) == FALSE

EnCiclo(r) == r \in Alcanza(Espera(r), Cardinality(Reqs))

\* InnoDB's deadlock detector aborts one transaction of a wait cycle
\* (error 1213), which the handler answers with 500.
Deadlock(r) ==
  /\ EnTransaccion(r)
  /\ EnCiclo(r)
  /\ SalirConError(r, "deadlock")
  /\ UNCHANGED lastid

\* ---------------------------------------------------------------- system
Cuantos(k) == Cardinality({r \in Reqs : req[r].kind = k})
EnVuelo == Cardinality({r \in Reqs : EnTransaccion(r)})

\* Order creation alone: MaxPedidoReqs concurrent crear_pedido requests.
Next ==
  \E r \in Reqs :
    \/ /\ Cuantos("pedido") < MaxPedidoReqs
       /\ \E e \in EntradasPedido : IniciarPedido(r, e[1], e[2])
    \/ PedidoCliente(r)
    \/ PedidoLinea(r)
    \/ PedidoInsertar(r)
    \/ PedidoDetalle(r)
    \/ PedidoCommit(r)
    \/ ErrorBD(r)
    \/ Deadlock(r)

Spec == Init /\ [][Next]_vars

\* The worker thread of a request keeps executing its handler, and the store
\* keeps running its deadlock detector: a step that stays possible is taken.
PasoPedido(r) ==
  \/ PedidoCliente(r)
  \/ PedidoLinea(r)
  \/ PedidoInsertar(r)
  \/ PedidoDetalle(r)
  \/ PedidoCommit(r)

SpecJusto ==
  /\ Init /\ [][Next]_vars
  /\ \A r \in Reqs : WF_vars(PasoPedido(r)) /\ WF_vars(Deadlock(r))

\* The order, payment and status requests of the pipeline together.
EntradasPedidoPagos ==
  {1} \X { <<[id_producto |-> 1, cantidad |-> 1]>>,
           <<[id_producto |-> 1, cantidad |-> 1], [id_producto |-> 2, cantidad |-> 1]>> }

\* (user, id_pedido, amount the client puts in detalles_pago): the owner of
\* order 1 with two different amounts, another customer, a user without
\* profile, an invalid id and an id that names no order.
EntradasPago ==
  { <<1, 1, 0>>, <<1, 1, 1>>, <<2, 1, 0>>, <<3, 1, 0>>, <<1, 0, 0>>, <<1, 2, 0>> }

\* (id_pedido, estado_pedido) of the administrator's status requests
EntradasEstado ==
  ({1} \X (EstadosValidos \cup {"Otro"})) \cup {<<2, "Pendiente">>}

NextPagos ==
  \E r \in Reqs :
    \/ /\ Cuantos("pedido") < 1
       /\ EnVuelo < MaxEnVuelo
       /\ \E e \in EntradasPedidoPagos : IniciarPedido(r, e[1], e[2])
    \/ PedidoCliente(r)
    \/ PedidoLinea(r)
    \/ PedidoInsertar(r)
    \/ PedidoDetalle(r)
    \/ PedidoCommit(r)
    \/ /\ Cuantos("pago") < MaxPagoReqs
       /\ EnVuelo < MaxEnVuelo
       /\ \E e \in EntradasPago : IniciarPago(r, e[1], e[2], e[3])
    \/ PagoCliente(r)
    \/ PagoBloquearPedido(r)
    \/ PagoInsertar(r)
    \/ PagoActualizarPedido(r)
    \/ PagoCommit(r)
    \/ PagoRespuesta(r)
    \/ /\ Cuantos("estado") < 1
       /\ EnVuelo < MaxEnVuelo
       /\ \E e \in EntradasEstado : IniciarEstado(r, e[1], e[2])
    \/ EstadoExiste(r)
    \/ EstadoActualizar(r)
    \/ ErrorBD(r)

SpecPagos == Init /\ [][NextPagos]_vars

\* The administrator's corrections next to the payments of an order that
\* already exists: the tables as the committed order of customer 1 for one
\* unit of product 1 leaves them.
PedidoInicial ==
  << [op |-> "ins_pedido", id |-> 1,
      fila |-> [id_cliente |-> 1, total_pedido |-> Subtotal(PrecioInicial[1], 1),
                estado_pedido |-> "Pendiente"]],
     [op |-> "ins_detalle", id |-> 1,
      fila |-> [id_detalle_pedido |-> 1, id_pedido |-> 1, id_producto |-> 1,
                cantidad |-> 1, precio_unitario |-> PrecioInicial[1]]],
     [op |-> "upd_inventario", id |-> 1, fila |-> [cantidad |-> 1]] >>

InitConPedido ==
  /\ db = Commit(BDInicial, PedidoInicial)
  /\ lastid = [LastidInicial EXCEPT !.pedidos = 1, !.detalle_pedidos = 1]
  /\ locks = {}
  /\ req = [r \in Reqs |-> ReqVacia]

\* the owner of order 1 and another customer
EntradasPagoAdmin == { <<1, 1, 0>>, <<2, 1, 0>> }

\* (id_pago, estado_pago) of the administrator's payment-status requests
EntradasEstadoPago ==
  ({1} \X (EstadosPagoValidos \cup {"Otro"})) \cup {<<2, "Rechazado">>}

NextAdmin ==
  \E r \in Reqs :
    \/ /\ Cuantos("pago") < MaxPagoReqs
       /\ EnVuelo < MaxEnVuelo
       /\ \E e \in EntradasPagoAdmin : IniciarPago(r, e[1], e[2], e[3])
    \/ PagoCliente(r)
    \/ PagoBloquearPedido(r)
    \/ PagoInsertar(r)
    \/ PagoActualizarPedido(r)
    \/ PagoCommit(r)
    \/ PagoRespuesta(r)
    \/ /\ Cuantos("estado") < 1
       /\ EnVuelo < MaxEnVuelo
       /\ \E e \in EntradasEstado : IniciarEstado(r, e[1], e[2])
    \/ EstadoExiste(r)
    \/ EstadoActualizar(r)
    \/ /\ Cuantos("estado_pago") < 1
       /\ EnVuelo < MaxEnVuelo
       /\ \E e \in EntradasEstadoPago : IniciarEstadoPago(r, e[1], e[2])
    \/ EstadoPagoExiste(r)
    \/ EstadoPagoActualizar(r)
    \/ EstadoPagoRespuesta(r)
    \/ ErrorBD(r)

SpecAdmin == InitConPedido /\ [][NextAdmin]_vars

\* Sale materialization next to the creation of the order it copies.
EntradasPedidoVentas ==
  {1} \X { <<[id_producto |-> 1, cantidad |-> MaxCantidad]>>,
           <<[id_producto |-> 1, cantidad |-> 1], [id_producto |-> 2, cantidad |-> 1]>> }

\* id_pedido_origen: the order the requests create and an id that names none
EntradasVenta == {1, 2}

NextVentas ==
  \E r \in Reqs :
    \/ /\ Cuantos("pedido") < 1
       /\ EnVuelo < MaxEnVuelo
       /\ \E e \in EntradasPedidoVentas : IniciarPedido(r, e[1], e[2])
    \/ PedidoCliente(r)
    \/ PedidoLinea(r)
    \/ PedidoInsertar(r)
    \/ PedidoDetalle(r)
    \/ PedidoCommit(r)
    \/ /\ Cuantos("venta") < MaxVentaReqs
       /\ EnVuelo < MaxEnVuelo
       /\ \E id \in EntradasVenta : IniciarVenta(r, id)
    \/ VentaPedidoOrigen(r)
    \/ VentaInsertar(r)
    \/ VentaDetalle(r)
    \/ VentaExcepcion(r)
    \/ VentaRetorno(r)
    \/ ErrorBD(r)

SpecVentas == Init /\ [][NextVentas]_vars

\* Price changes next to everything that touches an order: a second order,
\* the payment, the administrator's status update and the sale of order 1.
\* (id_producto, precio): a new price, a refused price, an unknown product
EntradasPrecio ==
  { <<1, PrecioInicial[1] + NumProductos + 1>>, <<1, 0>>,
    <<NumProductos + 1, PrecioInicial[1]>> }

EntradasEstadoPrecios == { <<1, "Completado">>, <<1, "Cancelado">> }

NextPrecios ==
  \E r \in Reqs :
    \/ /\ Cuantos("pedido") < 1
       /\ EnVuelo < MaxEnVuelo
       /\ \E e \in EntradasPedidoPagos : IniciarPedido(r, e[1], e[2])
    \/ PedidoCliente(r)
    \/ PedidoLinea(r)
    \/ PedidoInsertar(r)
    \/ PedidoDetalle(r)
    \/ PedidoCommit(r)
    \/ /\ Cuantos("precio") < MaxPrecioReqs
       /\ EnVuelo < MaxEnVuelo
       /\ \E e \in EntradasPrecio : IniciarPrecio(r, e[1], e[2])
    \/ PrecioExiste(r)
    \/ PrecioActualizar(r)
    \/ /\ Cuantos("pago") < 1
       /\ EnVuelo < MaxEnVuelo
       /\ IniciarPago(r, 1, 1, 0)
    \/ PagoCliente(r)
    \/ PagoBloquearPedido(r)
    \/ PagoInsertar(r)
    \/ PagoActualizarPedido(r)
    \/ PagoCommit(r)
    \/ PagoRespuesta(r)
    \/ /\ Cuantos("estado") < 1
       /\ EnVuelo < MaxEnVuelo
       /\ \E e \in EntradasEstadoPrecios : IniciarEstado(r, e[1], e[2])
    \/ EstadoExiste(r)
    \/ EstadoActualizar(r)
    \/ /\ Cuantos("venta") < 1
       /\ EnVuelo < MaxEnVuelo
       /\ IniciarVenta(r, 1)
    \/ VentaPedidoOrigen(r)
    \/ VentaInsertar(r)
    \/ VentaDetalle(r)
    \/ VentaExcepcion(r)
    \/ VentaRetorno(r)
    \/ ErrorBD(r)

SpecPrecios == InitConPedido /\ [][NextPrecios]_vars

\* The administrator deletes orders while a second order is created and the
\* status of the first is edited.  id_pedido: the order that exists from the
\* start and the id the second order gets.
EntradasEliminarPedido == {1, 2}

NextEliminar ==
  \E r \in Reqs :
    \/ /\ Cuantos("pedido") < 1
       /\ EnVuelo < MaxEnVuelo
       /\ \E e \in EntradasPedidoPagos : IniciarPedido(r, e[1], e[2])
    \/ PedidoCliente(r)
    \/ PedidoLinea(r)
    \/ PedidoInsertar(r)
    \/ PedidoDetalle(r)
    \/ PedidoCommit(r)
    \/ /\ Cuantos("eliminar_pedido") < MaxEliminarReqs
       /\ EnVuelo < MaxEnVuelo
       /\ \E id \in EntradasEliminarPedido : IniciarEliminarPedido(r, id)
    \/ EliminarPedidoExiste(r)
    \/ EliminarPedidoBorrar(r)
    \/ /\ Cuantos("estado") < 1
       /\ EnVuelo < MaxEnVuelo
       /\ \E e \in EntradasEstadoPrecios : IniciarEstado(r, e[1], e[2])
    \/ EstadoExiste(r)
    \/ EstadoActualizar(r)
    \/ ErrorBD(r)

SpecEliminar == InitConPedido /\ [][NextEliminar]_vars

\* Payments of the order that exists, and whatever may call
\* registrar_venta_desde_pedido for it.  A request that has arrived is run to
\* its answer by its worker; nothing obliges a request to arrive, and no
\* handler calls the sale function.
PasoPagoVenta(r) ==
  \/ PagoCliente(r)
  \/ PagoBloquearPedido(r)
  \/ PagoInsertar(r)
  \/ PagoActualizarPedido(r)
  \/ PagoCommit(r)
  \/ PagoRespuesta(r)
  \/ VentaPedidoOrigen(r)
  \/ VentaInsertar(r)
  \/ VentaDetalle(r)
  \/ VentaRetorno(r)

NextCobro ==
  \E r \in Reqs :
    \/ /\ Cuantos("pago") < MaxPagoReqs
       /\ EnVuelo < MaxEnVuelo
       /\ \E e \in EntradasPagoAdmin : IniciarPago(r, e[1], e[2], e[3])
    \/ PagoCliente(r)
    \/ PagoBloquearPedido(r)
    \/ PagoInsertar(r)
    \/ PagoActualizarPedido(r)
    \/ PagoCommit(r)
    \/ PagoRespuesta(r)
    \/ /\ Cuantos("venta") < MaxVentaReqs
       /\ EnVuelo < MaxEnVuelo
       /\ \E id \in EntradasVenta : IniciarVenta(r, id)
    \/ VentaPedidoOrigen(r)
    \/ VentaInsertar(r)
    \/ VentaDetalle(r)
    \/ VentaExcepcion(r)
    \/ VentaRetorno(r)
    \/ ErrorBD(r)

SpecCobro ==
  /\ InitConPedido /\ [][NextCobro]_vars
  /\ \A r \in Reqs : WF_vars(PasoPagoVenta(r))

\* Stock adjustments of the administrator: product 1 with adjustments from
\* below its stock to above it, another product and an unknown one.
EntradasStock ==
  ({1} \X ((0 - MaxCantidad - 1)..MaxCantidad))
    \cup { <<NumProductos, 1>>, <<NumProductos + 1, 1>> }

NextStock ==
  \E r \in Reqs :
    \/ /\ EnVuelo < MaxEnVuelo
       /\ \E e \in EntradasStock : IniciarStock(r, e[1], e[2])
    \/ StockLeer(r)
    \/ StockActualizar(r)
    \/ ErrorBD(r)

SpecStock == Init /\ [][NextStock]_vars

\* The cart requests of two customers and of a user without profile.
EntradasAgregar ==
  ({1} \X Productos \X (1..MaxCantidad))
    \cup { <<1, 0, 1>>, <<1, 1, 0>>, <<1, NumProductos + 1, 1>>, <<2, 1, 1>>, <<3, 1, 1>> }

EntradasActualizar ==
  ({1} \X {1} \X (-1..(MaxCantidad + 1))) \cup { <<3, 1, 1>> }

EntradasEliminar == { <<1, 1>>, <<3, 1>> }

EntradasVaciar == Usuarios

NextCarrito ==
  \E r \in Reqs :
    \/ /\ EnVuelo < MaxEnVuelo
       /\ \E e \in EntradasAgregar : IniciarAgregar(r, e[1], e[2], e[3])
    \/ AgregarLeer(r)
    \/ AgregarEscribir(r)
    \/ AgregarCommit(r)
    \/ /\ EnVuelo < MaxEnVuelo
       /\ \E e \in EntradasActualizar : IniciarActualizar(r, e[1], e[2], e[3])
    \/ ActualizarLeer(r)
    \/ ActualizarEscribir(r)
    \/ ActualizarCommit(r)
    \/ ActualizarRespuesta(r)
    \/ /\ EnVuelo < MaxEnVuelo
       /\ \E e \in EntradasEliminar : IniciarEliminar(r, e[1], e[2])
    \/ /\ EnVuelo < MaxEnVuelo
       /\ \E u \in EntradasVaciar : IniciarVaciar(r, u)
    \/ BorrarLeer(r)
    \/ BorrarFilas(r)
    \/ BorrarCommit(r)
    \/ ErrorBD(r)

SpecCarrito == Init /\ [][NextCarrito]_vars

\* ================================================================ claims
PedidosReqs == {r \in Reqs : req[r].kind = "pedido"}
Terminada(r) == req[r].pc = "fin"
Stock(p) == db.inventarios[p].cantidad_disponible

\* C1: in every reachable state, after any interleaving of crear_pedido
\* attempts with any list of lines (also lists that name one product in
\* several lines), every product's cantidad_disponible is >= 0.
C1_StockNuncaNegativo == \A p \in Productos : Stock(p) >= 0

\* a request that r's handler answered with a database error
ConErrorBD(r) == req[r].resp = 500
SoloLinea(r, p) == Len(req[r].productos) = 1 /\ req[r].productos[1].id_producto = p
Nombra(r, p) == \E i \in 1..Len(req[r].productos) : req[r].productos[i].id_producto = p

\* C2: two crear_pedido requests for the same product with quantities q1 and
\* q2, q1 <= stock, q2 <= stock, q1 + q2 > stock, that both ran to their
\* answer without a database error: exactly one commits (201), the other is
\* refused for insufficient stock (400), and the stock left is the initial
\* stock minus the winner's quantity.
C2_Caso(a, b, p) ==
  /\ a # b
  /\ a \in PedidosReqs /\ b \in PedidosReqs
  /\ ClienteDe(req[a].usuario) # SinCliente /\ ClienteDe(req[b].usuario) # SinCliente
  /\ SoloLinea(a, p) /\ SoloLinea(b, p)
  /\ req[a].productos[1].cantidad \in 1..StockInicial[p]
  /\ req[b].productos[1].cantidad \in 1..StockInicial[p]
  /\ req[a].productos[1].cantidad + req[b].productos[1].cantidad > StockInicial[p]
  /\ \A c \in PedidosReqs \ {a, b} : ~Nombra(c, p)
  /\ Terminada(a) /\ Terminada(b)
  /\ ~ConErrorBD(a) /\ ~ConErrorBD(b)

C2_GanaUno(a, b, p) ==
  /\ req[a].resp = 201
  /\ req[b].resp = 400 /\ req[b].msg = "inventario_insuficiente"
  /\ Stock(p) = StockInicial[p] - req[a].productos[1].cantidad

C2_UnoSoloGana ==
  \A a, b \in Reqs, p \in Productos :
    C2_Caso(a, b, p) => (C2_GanaUno(a, b, p) \/ C2_GanaUno(b, a, p))

C2_Witness ==
  \E a, b \in Reqs, p \in Productos :
    /\ C2_Caso(a, b, p)
    /\ C2_GanaUno(a, b, p)
    /\ req[b].cantidad_disponible = Stock(p)
    /\ req[a].productos[1].cantidad < StockInicial[p]

\* C3: a crear_pedido attempt that ends without the 201 answer (a refused
\* line, an unknown product, insufficient stock at the k-th line, a database
\* error at any statement) leaves the committed tables as they were: the
\* tables change only in the step that commits a whole order.
PasoDe(r) == req'[r] # req[r]

C3_FalloNoPersiste ==
  [][\A r \in Reqs :
       (PasoDe(r) /\ req'[r].kind = "pedido" /\ req'[r].resp # 201) => db' = db]_vars

C3_Witness ==
  \E a, b \in PedidosReqs :
    /\ Terminada(a) /\ req[a].msg = "error_bd" /\ req[a].id_pedido > 0
    /\ req[a].id_pedido \notin DOMAIN db.pedidos
    /\ \A d \in db.detalle_pedidos : d.id_pedido # req[a].id_pedido
    /\ Terminada(b) /\ req[b].msg = "inventario_insuficiente" /\ req[b].idx = 2
    /\ \A p \in Productos : Stock(p) = StockInicial[p]
    /\ db.pedidos = <<>>

\* C4: for every persisted order, total_pedido is the sum over its
\* detalle_pedidos rows of cantidad x precio_unitario.
RECURSIVE SumaDe(_, _)
SumaDe(S, f) ==
  IF S = {} THEN 0
  ELSE LET x == CHOOSE y \in S : TRUE IN f[x] + SumaDe(S \ {x}, f)

DetallesDe(id) == {d \in db.detalle_pedidos : d.id_pedido = id}

C4_TotalEsSuma ==
  \A id \in DOMAIN db.pedidos :
    LET sub == [d \in DetallesDe(id) |-> d.cantidad * d.precio_unitario]
    IN db.pedidos[id].total_pedido = SumaDe(DetallesDe(id), sub)

C4_Witness ==
  \E id \in DOMAIN db.pedidos :
    /\ Cardinality(DetallesDe(id)) = 2
    /\ \E d \in DetallesDe(id) : d.cantidad = 2
    /\ \E d, e \in DetallesDe(id) : d.precio_unitario # e.precio_unitario

\* C5: when crear_pedido checks a valid line of an existing product, it
\* refuses it for insufficient stock exactly when the quantity asked exceeds
\* the cantidad_disponible it read under the lock; an order that asks, in its
\* one line for a product, exactly the available quantity is accepted at that
\* line and its commit leaves the product's stock at 0.
LineaActual(r) == req[r].productos[req[r].idx]

C5_PasoLinea(r) ==
  /\ req[r].kind = "pedido" /\ req[r].pc = "lineas"
  /\ LineaActual(r) \in LineasValidas
  /\ PasoDe(r)
  /\ req'[r].msg \notin {"error_bd", "deadlock"}

NombraUnaVez(r, p) ==
  Cardinality({i \in 1..Len(req[r].productos) : req[r].productos[i].id_producto = p}) = 1

C5_InsuficienteSiiExcede ==
  [][\A r \in Reqs :
       /\ C5_PasoLinea(r) =>
            /\ (req'[r].msg = "inventario_insuficiente")
                 <=> (LineaActual(r).cantidad > Stock(LineaActual(r).id_producto))
            /\ (req'[r].msg = "inventario_insuficiente") <=> (req'[r].pc = "fin")
       /\ (req[r].kind = "pedido" /\ req[r].pc = "commit" /\ req'[r].resp = 201) =>
            \A i \in 1..Len(req[r].productos) :
              LET l == req[r].productos[i]
              IN (NombraUnaVez(r, l.id_producto) /\ l.cantidad = Stock(l.id_producto))
                   => db'.inventarios[l.id_producto].cantidad_disponible = 0]_vars

C5_Witness ==
  \E r \in PedidosReqs, p \in Productos :
    /\ SoloLinea(r, p) /\ req[r].productos[1].cantidad = StockInicial[p]
    /\ req[r].resp = 201
    /\ Stock(p) = 0

\* C6: with no restock and no delete_order, for every product the initial
\* stock equals the current stock plus the quantities of that product over
\* all persisted detalle_pedidos rows; the commit of an order lowers each
\* product's stock by exactly the quantity its lines ask of it and leaves
\* the other products' stock alone.
CantidadPedida(r, p) ==
  LET idxs == {i \in 1..Len(req[r].productos) : req[r].productos[i].id_producto = p}
      q == [i \in idxs |-> req[r].productos[i].cantidad]
  IN SumaDe(idxs, q)

StockConservado(d) ==
  \A p \in Productos :
    LET filas == {x \in d.detalle_pedidos : x.id_producto = p}
        q == [x \in filas |-> x.cantidad]
    IN StockInicial[p] = d.inventarios[p].cantidad_disponible + SumaDe(filas, q)

C6_StockConservado ==
  /\ StockConservado(db)
  /\ [][/\ StockConservado(db')
        /\ \A r \in Reqs :
             (req[r].kind = "pedido" /\ req[r].pc = "commit" /\ req'[r].resp = 201) =>
               \A p \in Productos :
                 db'.inventarios[p].cantidad_disponible = Stock(p) - CantidadPedida(r, p)
        /\ (\A r \in Reqs : req'[r].resp # 201 \/ req[r].resp = 201) =>
               db'.inventarios = db.inventarios]_vars

C6_Witness ==
  \E r \in PedidosReqs :
    /\ req[r].resp = 201
    /\ Len(req[r].productos) = 2
    /\ \E p \in Productos : ~Nombra(r, p) /\ Stock(p) = StockInicial[p]
    /\ \E p \in Productos : CantidadPedida(r, p) = 2 /\ Stock(p) = StockInicial[p] - 2

\* ------------------------------------------------------------ payments
PagosReqs == {r \in Reqs : req[r].kind = "pago"}
PagosDe(d, id) == {g \in d.pagos : g.id_pedido = id}

\* the order a payment request names, when it exists and belongs to the caller
PedidoPropio(r) ==
  /\ req[r].id_pedido \in DOMAIN db.pedidos
  /\ db.pedidos[req[r].id_pedido].id_cliente = ClienteDe(req[r].usuario)

\* the step in which procesar_pago locks and reads its order
PasoBloquearPedido(r) ==
  /\ req[r].kind = "pago" /\ req[r].pc = "bloquear_pedido"
  /\ PasoDe(r)
  /\ req'[r].msg # "error_bd"

\* C7: procesar_pago on an order of the caller whose estado_pedido is
\* Completado or Cancelado answers 400, inserts no pagos row and leaves the
\* order's status as it was.
C7_TerminalNoSePaga ==
  [][\A r \in Reqs :
       (/\ PasoBloquearPedido(r)
        /\ PedidoPropio(r)
        /\ db.pedidos[req[r].id_pedido].estado_pedido \in {"Completado", "Cancelado"})
       => /\ req'[r].pc = "fin" /\ req'[r].resp = 400 /\ req'[r].msg = "estado_terminal"
          /\ req'[r].id_pago = 0
          /\ db' = db
          /\ lastid' = lastid]_vars

C7_Witness ==
  \E r \in PagosReqs :
    /\ Terminada(r) /\ req[r].msg = "estado_terminal"
    /\ req[r].estado_pedido = "Cancelado"
    /\ PedidoPropio(r)
    /\ db.pedidos[req[r].id_pedido].estado_pedido = "Cancelado"
    /\ PagosDe(db, req[r].id_pedido) = {}

\* C8: procesar_pago writes its pagos row and the order's Completado status
\* in one commit: every step that adds a pagos row adds exactly one, with
\* status Aprobado, and sets its order to Completado in the same step; a
\* payment request changes the committed tables in no other way, whatever
\* statement a database error hits; and a payment request that then finds
\* the order paid and Completado answers 400.
C8_PagoYEstadoJuntos ==
  [][/\ (db'.pagos # db.pagos) =>
          \E r \in Reqs, g \in db'.pagos :
            /\ req[r].kind = "pago" /\ req[r].pc = "commit" /\ PasoDe(r)
            /\ g \notin db.pagos
            /\ db'.pagos = db.pagos \cup {g}
            /\ g.id_pedido = req[r].id_pedido
            /\ g.estado_pago = "Aprobado"
            /\ g.id_pedido \in DOMAIN db.pedidos
            /\ db.pedidos[g.id_pedido].estado_pedido \notin {"Completado", "Cancelado"}
            /\ db'.pedidos = [db.pedidos EXCEPT ![g.id_pedido].estado_pedido = "Completado"]
     /\ \A r \in Reqs :
          (req[r].kind = "pago" /\ PasoDe(r) /\ db'.pagos = db.pagos) => db' = db
     /\ \A r \in Reqs :
          (/\ PasoBloquearPedido(r)
           /\ PedidoPropio(r)
           /\ PagosDe(db, req[r].id_pedido) # {}
           /\ db.pedidos[req[r].id_pedido].estado_pedido = "Completado")
          => req'[r].resp = 400]_vars

C8_Witness ==
  \E a, b \in PagosReqs :
    /\ a # b
    /\ req[a].id_pedido = req[b].id_pedido
    /\ req[a].msg = "error_bd" /\ req[a].id_pago > 0
    /\ \A g \in db.pagos : g.id_pago # req[a].id_pago
    /\ req[b].resp = 200
    /\ \E g \in db.pagos : g.id_pago = req[b].id_pago /\ g.estado_pago = "Aprobado"
    /\ db.pedidos[req[b].id_pedido].estado_pedido = "Completado"

\* C9: every pagos row carries as monto the total_pedido of its order,
\* whatever amount the client sent with the request.
C9_MontoEsTotal ==
  \A g \in db.pagos :
    g.id_pedido \in DOMAIN db.pedidos => g.monto = db.pedidos[g.id_pedido].total_pedido

C9_Witness ==
  \E r \in PagosReqs, g \in db.pagos :
    /\ req[r].resp = 200 /\ g.id_pago = req[r].id_pago
    /\ req[r].monto_cliente # g.monto
    /\ req[r].monto_cliente > 0
    /\ g.monto = db.pedidos[g.id_pedido].total_pedido

\* C10: two procesar_pago requests by the owner of the same order that both
\* found the order and ran to their answer without a database error, with no
\* status request of the administrator and no third payment request for the
\* order: exactly one is answered
\* 200 and the other 400 for the order being Completado, and the order has
\* exactly one pagos row.
C10_Caso(a, b) ==
  /\ a # b
  /\ a \in PagosReqs /\ b \in PagosReqs
  /\ req[a].id_pedido = req[b].id_pedido
  /\ PedidoPropio(a) /\ PedidoPropio(b)
  /\ Terminada(a) /\ Terminada(b)
  /\ req[a].resp \notin {404, 500} /\ req[b].resp \notin {404, 500}
  /\ \A c \in PagosReqs \ {a, b} : req[c].id_pedido # req[a].id_pedido
  /\ Cuantos("estado") = 0

C10_PagaUno(a, b) ==
  /\ req[a].resp = 200
  /\ req[b].resp = 400 /\ req[b].msg = "estado_terminal" /\ req[b].estado_pedido = "Completado"
  /\ Cardinality(PagosDe(db, req[a].id_pedido)) = 1

C10_UnSoloPago ==
  \A a, b \in Reqs : C10_Caso(a, b) => (C10_PagaUno(a, b) \/ C10_PagaUno(b, a))

C10_Witness ==
  \E a, b \in Reqs : C10_Caso(a, b) /\ C10_PagaUno(a, b) /\ b < a

\* ------------------------------------------------ administrator's edits
\* the state SpecAdmin starts from is one crear_pedido leaves behind
PedidoInicialAlcanzable ==
  /\ db = Commit(BDInicial, PedidoInicial)
  /\ lastid = [LastidInicial EXCEPT !.pedidos = 1, !.detalle_pedidos = 1]
  /\ locks = {}

\* C11: in every reachable state, after any sequence of procesar_pago,
\* actualizar_estado_pedido_admin and actualizar_estado_pago_admin requests,
\* every order has at most one pagos row.
C11_UnPagoPorPedido ==
  \A id \in DOMAIN db.pedidos : Cardinality(PagosDe(db, id)) <= 1

\* C12: once an order's estado_pedido is Completado or Cancelado, no step of
\* procesar_pago or actualizar_estado_pedido_admin changes it again.
C12_TerminalNoCambia ==
  [][\A id \in DOMAIN db.pedidos :
       EsTerminal(db.pedidos[id].estado_pedido) =>
         /\ id \in DOMAIN db'.pedidos
         /\ db'.pedidos[id].estado_pedido = db.pedidos[id].estado_pedido]_vars

\* ---------------------------------------------------------------- sales
VentasReqs == {r \in Reqs : req[r].kind = "venta"}

\* a call that returned True and whose session committed
Registrada(r) ==
  req[r].kind = "venta" /\ Terminada(r) /\ req[r].resultado = "True" /\ req[r].resp = 200

\* the calls for order id that returned True and were committed
VentasHechas(id) == {r \in VentasReqs : req[r].id_pedido = id /\ Registrada(r)}

DetallesVentaDe(d, id_venta) == {x \in d.detalles_venta : x.id_venta = id_venta}

\* C13: registrar_venta_desde_pedido called any number of times (>= 1) for
\* the same order leaves exactly one ventas row for that order, with one
\* detalles_venta row per order line.
C13_UnaVentaPorPedido ==
  \A id \in DOMAIN db.pedidos :
    VentasHechas(id) # {} =>
      LET vs == {v \in db.ventas : \E r \in VentasHechas(id) : v.id_venta = req[r].id_venta}
      IN /\ Cardinality(vs) = 1
         /\ Cardinality(UNION {DetallesVentaDe(db, v.id_venta) : v \in vs})
              = Cardinality(DetallesDe(id))

\* C14: after a call of registrar_venta_desde_pedido returned True and its
\* session committed, the sale it made has the order's total and customer,
\* and as many detalles_venta rows with a given product, quantity and unit
\* price as the order has detalle_pedidos rows with them, each with
\* subtotal = cantidad x precio_unitario.
MismaLinea(x, d) ==
  /\ x.id_producto = d.id_producto
  /\ x.cantidad = d.cantidad
  /\ x.precio_unitario = d.precio_unitario

C14_VentaReflejaPedido ==
  \A r \in VentasReqs :
    Registrada(r) =>
      LET dv == DetallesVentaDe(db, req[r].id_venta)
          dp == DetallesDe(req[r].id_pedido)
      IN /\ \E v \in db.ventas :
              /\ v.id_venta = req[r].id_venta
              /\ v.total = db.pedidos[req[r].id_pedido].total_pedido
              /\ v.id_cliente = db.pedidos[req[r].id_pedido].id_cliente
         /\ Cardinality({v \in db.ventas : v.id_venta = req[r].id_venta}) = 1
         /\ Cardinality(dv) = Cardinality(dp)
         /\ \A d \in dp :
              Cardinality({x \in dv : MismaLinea(x, d)})
                = Cardinality({e \in dp : MismaLinea(e, d)})
         /\ \A x \in dv : x.subtotal = x.cantidad * x.precio_unitario

C14_Witness ==
  \E a \in VentasReqs :
    /\ Registrada(a)
    /\ Cardinality(DetallesVentaDe(db, req[a].id_venta)) = 2
    /\ \E x, y \in DetallesVentaDe(db, req[a].id_venta) : x.id_producto # y.id_producto

\* ----------------------------------------------------------------- cart
AgregarReqs == {r \in Reqs : req[r].kind = "agregar"}
ConPerfil(r) == ClienteDe(req[r].usuario) # SinCliente

\* the quantity the committed cart holds for the pair a request names
EnCarrito(d, r) == ItemExistente(d, ClienteDe(req[r].usuario), req[r].id_producto)

\* the cart rows other than those of the pair a request names
OtrasFilas(d, r) ==
  d.carrito \ ItemsDe(d, ClienteDe(req[r].usuario), req[r].id_producto)

\* a step of request r that is not the answer to a database error
PasoSinError(r) == PasoDe(r) /\ req'[r].msg # "error_bd"

\* C15: agregar_producto_al_carrito for a customer with profile and an
\* existing product, with e the quantity of the item already in the cart
\* (0 when there is none) and q the quantity asked: it is refused with 400
\* exactly when e + q exceeds the stock, and then the cart is left as it
\* was; otherwise its commit leaves one item for the pair with quantity
\* e + q (q when there was none) and the other rows alone.
C15_AgregarSuma ==
  [][\A r \in Reqs :
       /\ (/\ req[r].kind = "agregar" /\ req[r].pc = "leer" /\ PasoSinError(r)
           /\ ConPerfil(r) /\ req[r].id_producto \in Productos)
          => LET e == EnCarrito(db, r).cantidad
                 q == req[r].cantidad
             IN /\ (e + q > Stock(req[r].id_producto))
                     <=> (req'[r].resp = 400 /\ req'[r].msg = "inventario_insuficiente")
                /\ (e + q > Stock(req[r].id_producto)) <=> (req'[r].pc = "fin")
                /\ db' = db
       /\ (/\ req[r].kind = "agregar" /\ req[r].pc = "commit" /\ PasoSinError(r)
           /\ EnCarrito(db, r) = req[r].item_existente
           /\ Cardinality(ItemsDe(db, req[r].id_cliente, req[r].id_producto)) <= 1)
          => /\ req'[r].resp = 201
             /\ Cardinality(ItemsDe(db', req[r].id_cliente, req[r].id_producto)) = 1
             /\ EnCarrito(db', r).cantidad = req[r].item_existente.cantidad + req[r].cantidad
             /\ req[r].item_existente # SinItem =>
                  EnCarrito(db', r).id_item_carrito = req[r].item_existente.id_item_carrito
             /\ OtrasFilas(db', r) = OtrasFilas(db, r)]_vars

C15_Witness ==
  \E a, b, c \in AgregarReqs :
    /\ req[a].usuario = req[b].usuario /\ req[b].usuario = req[c].usuario
    /\ req[a].id_producto = req[b].id_producto /\ req[b].id_producto = req[c].id_producto
    /\ req[a].resp = 201 /\ req[a].item_existente = SinItem /\ req[a].cantidad = 1
    /\ req[b].resp = 201 /\ req[b].item_existente.cantidad = 1 /\ req[b].cantidad = 1
    /\ req[c].resp = 400 /\ req[c].msg = "inventario_insuficiente"
    /\ req[c].item_existente.cantidad = 2 /\ req[c].cantidad = 1
    /\ EnCarrito(db, c).cantidad = 2
    /\ Cardinality(db.carrito) = 1

\* C16: in every reachable state, after any interleaving of the cart
\* requests (two concurrent adds of one customer for one product among
\* them), the cart holds at most one row per (customer, product) and every
\* row has a quantity > 0.
C16_UnItemPorPar ==
  /\ \A x, y \in db.carrito :
       (x.id_cliente = y.id_cliente /\ x.id_producto = y.id_producto) => x = y
  /\ \A x \in db.carrito : x.cantidad > 0

FilasDeCliente(d, id_cliente) == {x \in d.carrito : x.id_cliente = id_cliente}

ProductosDe(r) == {req[r].productos[i].id_producto : i \in 1..Len(req[r].productos)}

\* the products whose stock an open crear_pedido has read under the lock
ProductosLeidos(r) ==
  {req[r].detalles_para_insertar[i].id_producto : i \in 1..Len(req[r].detalles_para_insertar)}

PedidoAbierto(r) == req[r].kind = "pedido" /\ EnTransaccion(r)

\* the inventory row the next statement of r locks, when it is reading a line
\* that passes the checks on its fields
LineaPorLeer(r) ==
  /\ req[r].kind = "pedido" /\ req[r].pc = "lineas"
  /\ LineaActual(r) \in LineasValidas

Disjuntos(a, b) == ProductosDe(a) \cap ProductosDe(b) = {}

\* C19: an open crear_pedido waits only for inventory rows of products in
\* its own lines: two open orders with disjoint product sets hold no common
\* row, and an order whose product set is disjoint from those of all other
\* open orders finds the row of its next line free.
C19_DisjuntosNoEsperan ==
  \A a \in Reqs :
    PedidoAbierto(a) =>
      /\ \A b \in Reqs \ {a} :
           (PedidoAbierto(b) /\ Disjuntos(a, b)) =>
             /\ {l[1] : l \in {m \in locks : m[2] = a}}
                  \cap {l[1] : l \in {m \in locks : m[2] = b}} = {}
             /\ LineaPorLeer(a) =>
                  b \notin Titular(Fila("inventarios", LineaActual(a).id_producto))
      /\ ((\A b \in Reqs \ {a} : PedidoAbierto(b) => Disjuntos(a, b)) /\ LineaPorLeer(a))
           => LibrePara(a, Fila("inventarios", LineaActual(a).id_producto))

C19_Witness ==
  \E a, b \in PedidosReqs :
    /\ a # b /\ Disjuntos(a, b)
    /\ req[a].pc = "commit" /\ req[b].pc = "commit"
    /\ \E p \in Productos : a \in Titular(Fila("inventarios", p))
    /\ \E p \in Productos : b \in Titular(Fila("inventarios", p))

\* C20: a lock that crear_pedido took stays with it until its transaction
\* ends and is gone when it ends; while another request holds the row of a
\* product, no crear_pedido reads that product's availability, and nobody
\* changes the stock of a product an open order has read; the order that
\* reads a product reads its committed cantidad_disponible, which the
\* holder's commit lowered by its quantity and the holder's rollback left
\* as it was.
C20_BloqueoHastaElFin ==
  [][/\ \A r \in Reqs :
          req[r].kind = "pedido" =>
            /\ req'[r].pc # "fin" =>
                 {l \in locks : l[2] = r} \subseteq {l \in locks' : l[2] = r}
            /\ req'[r].pc = "fin" => {l \in locks' : l[2] = r} = {}
            /\ (LineaPorLeer(r) /\ PasoDe(r)) =>
                 LET p == LineaActual(r).id_producto
                 IN \/ req'[r].msg \in {"error_bd", "deadlock"}
                    \/ /\ Titular(Fila("inventarios", p)) \subseteq {r}
                       /\ req'[r].cantidad_disponible = Stock(p)
            /\ (PedidoAbierto(r) /\ ~PasoDe(r)) =>
                 \A p \in ProductosLeidos(r) :
                   db'.inventarios[p].cantidad_disponible = Stock(p)
            /\ (PedidoAbierto(r) /\ req'[r].pc = "fin") =>
                 \A p \in ProductosLeidos(r) :
                   db'.inventarios[p].cantidad_disponible =
                     IF req'[r].resp = 201 THEN Stock(p) - CantidadPedida(r, p)
                     ELSE Stock(p)]_vars

C20_Witness ==
  \E a, b \in PedidosReqs, p \in Productos :
    /\ a # b
    /\ SoloLinea(a, p) /\ SoloLinea(b, p)
    /\ req[a].id_pedido > 0 /\ req[a].id_pedido < req[b].id_pedido
    /\ req[a].msg = "error_bd"
    /\ req[b].resp = 201 /\ req[b].cantidad_disponible = StockInicial[p]
    /\ Stock(p) = StockInicial[p] - req[b].productos[1].cantidad

\* C21: every crear_pedido request eventually ends, and it ends whole: with
\* the 201 answer and the order row and all its detail rows committed, or
\* with another answer and no row of it committed. It is never blocked
\* forever, also when two orders name the same two products in opposite
\* line order (one of the two is then the deadlock victim).
C21_Entero(r) ==
  IF req[r].resp = 201
  THEN /\ req[r].id_pedido \in DOMAIN db.pedidos
       /\ Cardinality(DetallesDe(req[r].id_pedido)) = Len(req[r].productos)
  ELSE /\ req[r].id_pedido \notin DOMAIN db.pedidos
       /\ DetallesDe(req[r].id_pedido) = {}

C21_PedidoTermina ==
  \A r \in Reqs :
    (req[r].kind = "pedido") ~> (Terminada(r) /\ C21_Entero(r))

C21_OrdenOpuesto(a, b) ==
  /\ Len(req[a].productos) = 2 /\ Len(req[b].productos) = 2
  /\ req[a].productos[1].id_producto = req[b].productos[2].id_producto
  /\ req[a].productos[2].id_producto = req[b].productos[1].id_producto
  /\ req[a].productos[1].id_producto # req[a].productos[2].id_producto

C21_Witness ==
  \E a, b \in PedidosReqs :
    /\ C21_OrdenOpuesto(a, b)
    /\ Terminada(a) /\ req[a].msg = "deadlock" /\ C21_Entero(a)
    /\ Terminada(b) /\ req[b].resp = 201 /\ C21_Entero(b)

\* C22: crear_pedido validates every line before it opens the transaction
\* and before it locks any inventory row: a request whose list holds a line
\* with a non-positive id_producto or cantidad never holds an inventory lock.
LineaMalformada(item) == item.id_producto <= 0 \/ item.cantidad <= 0
ConLineaMalformada(r) ==
  \E i \in 1..Len(req[r].productos) : LineaMalformada(req[r].productos[i])
BloqueosDe(r) == {l[1] : l \in {m \in locks : m[2] = r}}

C22_ValidaAntesDeBloquear ==
  \A r \in PedidosReqs : ConLineaMalformada(r) => BloqueosDe(r) = {}

\* C23: the precio_unitario of a detail row is the price of the product at
\* the moment the order commits (the price read under the lock), and from
\* then on neither the detail rows of an order nor its total_pedido change:
\* a later price change, a payment, a status update and the sale of the
\* order leave them as they were.
DetallesEn(d, id) == {l \in d.detalle_pedidos : l.id_pedido = id}

C23_PrecioAlConfirmar ==
  \A id \in DOMAIN db'.pedidos \ DOMAIN db.pedidos :
    \A l \in DetallesEn(db', id) :
      l.precio_unitario = db.productos[l.id_producto].precio_venta

C23_PedidoIntacto ==
  \A id \in DOMAIN db.pedidos :
    /\ id \in DOMAIN db'.pedidos
    /\ db'.pedidos[id].total_pedido = db.pedidos[id].total_pedido
    /\ DetallesEn(db', id) = DetallesEn(db, id)

C23_PrecioFijado == [][C23_PrecioAlConfirmar /\ C23_PedidoIntacto]_vars

C23_Witness ==
  /\ db.productos[1].precio_venta # PrecioInicial[1]
  /\ \E l \in DetallesEn(db, 1) :
       l.id_producto = 1 /\ l.precio_unitario = PrecioInicial[1]
  /\ db.pedidos[1].total_pedido = Subtotal(PrecioInicial[1], 1)
  /\ db.pedidos[1].estado_pedido = "Completado"
  /\ PagosDe(db, 1) # {}
  /\ \E r \in Reqs : req[r].kind = "venta" /\ Terminada(r) /\ req[r].resp = 200
                      /\ req[r].resultado = "True"

\* C24: eliminar_pedido_admin on an order that exists answers 200 and leaves
\* neither the order nor any of its detail rows, every other order and every
\* product's cantidad_disponible being as before; on an id that names no
\* order it answers 404 (unless the database fails: 500); and every answer
\* other than 200 changes nothing.
C24_PasoEliminar(r) == PasoDe(r) /\ req[r].kind = "eliminar_pedido"

C24_Eliminado(r) ==
  LET id == req[r].id_pedido
  IN /\ id \notin DOMAIN db'.pedidos
     /\ DetallesEn(db', id) = {}
     /\ \A j \in DOMAIN db.pedidos \ {id} :
          /\ j \in DOMAIN db'.pedidos
          /\ db'.pedidos[j] = db.pedidos[j]
          /\ DetallesEn(db', j) = DetallesEn(db, j)

C24_EliminarPedido ==
  [][\A r \in Reqs :
       C24_PasoEliminar(r) =>
         /\ db'.inventarios = db.inventarios
         /\ req'[r].resp = 200 => C24_Eliminado(r)
         /\ req'[r].resp # 200 => db' = db
         /\ (req[r].pc = "existe" /\ req'[r].resp # 500) =>
              (req'[r].resp = 404 <=> req[r].id_pedido \notin DOMAIN db.pedidos)]_vars

C24_Witness ==
  \E a, b \in Reqs :
    /\ req[a].kind = "eliminar_pedido" /\ req[a].id_pedido = 1 /\ req[a].resp = 200
    /\ 1 \notin DOMAIN db.pedidos /\ DetallesEn(db, 1) = {}
    /\ Stock(1) = StockInicial[1] - 2
    /\ req[b].kind = "eliminar_pedido" /\ req[b].resp = 404
    /\ 2 \in DOMAIN db.pedidos /\ DetallesEn(db, 2) # {}

\* C25: actualizar_estado_pago_admin changes nothing but the estado_pago of
\* the payment it names, which its UPDATE sets to the requested one of the
\* four states; the orders (their estado_pedido too) and the stock stay as
\* they were, also when the new state is Reembolsado; a state outside the
\* four is answered 400 and changes nothing.
C25_PasoEstadoPago(r) == PasoDe(r) /\ req'[r].kind = "estado_pago"

C25_SoloEstadoPago ==
  [][\A r \in Reqs :
       C25_PasoEstadoPago(r) =>
         /\ [db' EXCEPT !.pagos = db.pagos] = db
         /\ {[g EXCEPT !.estado_pago = "x"] : g \in db'.pagos}
              = {[g EXCEPT !.estado_pago = "x"] : g \in db.pagos}
         /\ \A g \in db'.pagos \ db.pagos :
              /\ g.id_pago = req'[r].id_pago
              /\ g.estado_pago = req'[r].estado_pago
              /\ g.estado_pago \in {"Pendiente", "Aprobado", "Rechazado", "Reembolsado"}
         /\ req'[r].pc = "post_commit" =>
              \A g \in db'.pagos :
                g.id_pago = req'[r].id_pago => g.estado_pago = req'[r].estado_pago
         /\ req'[r].estado_pago \notin {"Pendiente", "Aprobado", "Rechazado", "Reembolsado"}
              => (req'[r].resp = 400 /\ req'[r].pc = "fin" /\ db' = db)]_vars

C25_Witness ==
  \E r, q \in Reqs :
    /\ req[r].kind = "estado_pago" /\ req[r].resp = 200
    /\ req[r].estado_pago = "Reembolsado"
    /\ req[q].kind = "pago" /\ req[q].resp = 200
    /\ \E g \in db.pagos : g.id_pago = req[r].id_pago /\ g.estado_pago = "Reembolsado"
                            /\ g.id_pedido = 1
    /\ db.pedidos[1].estado_pedido = "Completado"
    /\ Stock(1) = StockInicial[1] - 1

C29_VentaEnteraONada ==
  \A r \in VentasReqs :
    (Terminada(r) /\ req[r].id_venta > 0) =>
      \A v \in {w \in db.ventas : w.id_venta = req[r].id_venta} :
        /\ req[r].resultado = "True"
        /\ Cardinality(DetallesVentaDe(db, v.id_venta))
             = Cardinality(DetallesDe(req[r].id_pedido))

\* C26: once procesar_pago has committed and set its order to Completado, a
\* sale of that order with its lines eventually exists.
C26_Pagado(r) == req[r].kind = "pago" /\ Terminada(r) /\ req[r].resp = 200

C26_VentaDe(id) ==
  \E q \in VentasHechas(id) :
    /\ \E v \in db.ventas : v.id_venta = req[q].id_venta
    /\ DetallesVentaDe(db, req[q].id_venta) # {}

C26_PagoLlevaAVenta ==
  \A r \in Reqs : C26_Pagado(r) ~> C26_VentaDe(req[r].id_pedido)

\* C28: two concurrent actualizar_stock_producto requests with adjustments
\* d1 and d2 for one product that both answer 200 leave its stock at the
\* initial stock + d1 + d2.
StockReqs == {r \in Reqs : req[r].kind = "stock"}
Ajustados(p) ==
  {r \in StockReqs : req[r].id_producto = p /\ Terminada(r) /\ req[r].resp = 200}

C28_AjustesSeSuman ==
  \A p \in Productos :
    \A a, b \in Ajustados(p) :
      (a # b /\ Ajustados(p) = {a, b}) =>
        db.productos[p].stock
          = StockInicial[p] + req[a].cantidad_ajuste + req[b].cantidad_ajuste

\* C30: an adjustment whose sum stock + cantidad is negative is answered 400
\* and leaves the stock as it was; otherwise the UPDATE sets the stock to
\* the stock the handler read + cantidad, which is the stock of the table +
\* cantidad when no other adjustment came in between; and the stock of no
\* product is ever negative.
C30_AjusteValidado ==
  [][/\ \A p \in Productos : db'.productos[p].stock >= 0
     /\ \A r \in Reqs :
          /\ (/\ req[r].kind = "stock" /\ req[r].pc = "leer" /\ PasoSinError(r)
              /\ req[r].id_producto \in Productos)
             => LET actual == db.productos[req[r].id_producto].stock
                IN /\ (actual + req[r].cantidad_ajuste < 0)
                        <=> (req'[r].pc = "fin" /\ req'[r].resp = 400)
                   /\ (actual + req[r].cantidad_ajuste >= 0)
                        <=> (req'[r].pc = "actualizar")
                   /\ db' = db
          /\ (req[r].kind = "stock" /\ req[r].pc = "actualizar" /\ PasoSinError(r))
             => LET actual == db.productos[req[r].id_producto].stock
                IN /\ db'.productos[req[r].id_producto].stock
                        = req[r].stock + req[r].cantidad_ajuste
                   /\ actual = req[r].stock =>
                        db'.productos[req[r].id_producto].stock
                          = actual + req[r].cantidad_ajuste]_vars

C30_Witness ==
  \E a, b \in StockReqs :
    /\ req[a].id_producto = 1 /\ req[a].resp = 200
    /\ req[a].cantidad_ajuste = 0 - StockInicial[1]
    /\ req[b].id_producto = 1 /\ req[b].resp = 400 /\ req[b].cantidad_ajuste = 0 - 1
    /\ req[b].stock = 0 /\ req[b].nuevo_stock = 0 - 1
    /\ db.productos[1].stock = 0

====
